---- MODULE Spec2Model ----
(***************************************************************************)
(* Webasto LoRa remote control: the Sender command/ACK loop, the Receiver  *)
(* duty-cycled control loop, the radio link between them and the W-BUS     *)
(* side of the Receiver.                                                   *)
(*                                                                         *)
(* Time is discrete.  One tick is TickMs milliseconds; every delay() or    *)
(* millis() comparison of the firmware is expressed in ticks.  A radio     *)
(* transmission and a W-BUS request/response exchange take less than one   *)
(* tick; the explicit delay() calls (setup, break pulse), the listen       *)
(* window, the deep sleep and the retry/ACK timers take the time the code  *)
(* gives them, a delay that is no whole number of ticks being rounded up.  *)
(* Of the Status payload the state and lastCmdSeq are modelled; the        *)
(* measurement fields (operating-state byte, temperature, voltage, power)  *)
(* are left out.                                                           *)
(***************************************************************************)
EXTENDS Integers, Sequences, FiniteSets, TLC

(* ---------------- program constants ---------------- *)
RX_IDLE_LISTEN_WINDOW_MS == 400
RX_IDLE_SLEEP_MS == 4000
SENDER_CMD_ACK_TIMEOUT_MS == 10000
SENDER_CMD_RETRY_INTERVAL_MS == 1000
LORA_NODE_SENDER == 1
LORA_NODE_RECEIVER == 2
DEFAULT_RUN_MINUTES == 30
SETUP_DELAY_MS == 1000
POLL_INTERVAL_MS == 2000
BREAK_PULSE_MS == 1000 + 50 + 50
SeqModulus == 65536
kCommandRetries == 3
kMagicVersion == 52
WBUS_MAX_LEN == 256
WBUS_SEND_BREAK == 1
RX_OFF_EXTENDED_WAKE_MS == 60000

(* ---------------- bounds of the model ---------------- *)
MaxCmds == 2
MaxRunPolls == 1
MaxSends == 3
MaxMillis == 11000

(* ---------------- time base ---------------- *)
TickMs == RX_IDLE_LISTEN_WINDOW_MS \div 2
WindowTicks == RX_IDLE_LISTEN_WINDOW_MS \div TickMs
SleepTicks == RX_IDLE_SLEEP_MS \div TickMs
AckTicks == SENDER_CMD_ACK_TIMEOUT_MS \div TickMs
RetryTicks == SENDER_CMD_RETRY_INTERVAL_MS \div TickMs
SetupTicks == SETUP_DELAY_MS \div TickMs
PollTicks == POLL_INTERVAL_MS \div TickMs
BreakTicks == (BREAK_PULSE_MS + TickMs - 1) \div TickMs
ExtendedWakeTicks == RX_OFF_EXTENDED_WAKE_MS \div TickMs

(* ---------------- values ---------------- *)
CommandKinds == {"Stop", "Start", "RunMinutes", "QueryStatus"}
RunChoices == {}
OpStateOff == 4
OpStateBurning == 6

NoPkt == [type |-> "None"]
NoStatus == [state |-> "Unknown", lastCmdSeq |-> 0]

NextSeq(s) == (s + 1) % SeqModulus
PrevSeq(s) == (s + SeqModulus - 1) % SeqModulus

\* the last receiver step handled no radio command
NotHandled == [cmd |-> FALSE, dup |-> FALSE, afterWake |-> FALSE, kind |-> "None",
               ok |-> FALSE, ack |-> FALSE, prev |-> "Unknown", minutes |-> 0,
               lastRun |-> 0, source |-> "none", probe |-> FALSE, open |-> <<>>,
               first |-> FALSE]

VARIABLES
  \* Sender (sender main)
  sPc,              \* "loop" | "await" (inside sendCommandWithAck)
  sSeq,             \* gSeq of the sender
  gAwaitingCmdSeq,
  sCmd,             \* cmd packet built by sendCommandWithAck
  sElapsed,         \* millis() - start, in ticks
  sNextSend,        \* nextSend - start, in ticks
  gLastMinutes,
  gLastStatus,
  sResult,          \* result of the last sendCommandWithAck: "none" | "Ok" | "TimedOut"
  sInbox,           \* frame waiting in the sender's radio
  nCmds,            \* number of submitted commands
  \* Receiver (receiver main)
  rPc,              \* position of the receiver in setup()/loop()
  rTimer,           \* ticks left of the current delay / window / sleep
  rCont,            \* position to resume after the break pulse
  rSincePoll,       \* millis() - gLastPollMs, in ticks, saturated above PollTicks
  gStatus,
  rSeq,             \* gSeq of the receiver
  gLastProcessedCmdSeq,
  gTlvSupportCache,
  gLastRunMinutes,
  didBreak,
  heaterRunning,    \* the loop-local constant of loop()
  rPkt,             \* the loop-local pkt of loop()
  rInbox,           \* frame waiting in the receiver's radio
  \* Heater on the W-BUS
  heaterOn,
  heaterLeft,
  \* Observation of the last step
  wbusOut,          \* W-BUS frames written by the last step
  radioOut,         \* packets handed to loraLink.send by the last receiver step
  rHandled,         \* what the last receiver step handled, as seen before the step
  \* History
  hLastSeq,         \* seq of the last radio command the receiver handled (-1: none)
  hSlept,           \* the receiver deep-slept since it last handled a command
  hFirstPkt,        \* no packet was received yet since the last wake
  hWasRunning,      \* gStatus.state was Running at some point since the last boot
  hQuery,           \* the last new command of this boot was a QueryStatus taken from the idle window
  hPolls,           \* polls made since the last new command of this boot
  hIdleAtSubmit,    \* the receiver was in its idle duty cycle when the pending submit began
  hLossless,        \* the radio link delivered every frame since the pending submit began
  sGot,             \* the last packet the pending or last submit took from the radio
  trackNonce,       \* whether encLog is recorded
  encLog,           \* the (nonce, plaintext) pairs handed to encryptPacket
  hPreset,          \* minutes of the last new RunMinutes command handled (DEFAULT_RUN_MINUTES: none)
  gLastCommandSource, \* "none" | "lora" | "button" | "mqtt"
  hOffAge,          \* ticks awake since a poll saw the heater Off after Running (-1: not seen since the last wake)
  hTlv,             \* TLV probes since the cold boot: how many (capped at 2), the last result, whether a deep sleep followed
  \* One LoRaLink object and its radio chip
  lConfigured,      \* LoRaLink::configured
  lMode,            \* operating mode of the chip: "off" | "standby" | "rx" | "sleep"
  lOp,              \* the last LoRaLink call: "none" | "begin" | "send" | "recv" | "sleep"
  lResult,          \* what that call returned
  lAir,             \* the packets put on the air, oldest first
  hWbusOpen,        \* the W-BUS request written last whose response was neither read nor waited for (<<>>: none)
  \* LoRaLink::send and LoRaLink::recv at byte level, with the receiver loop that calls recv
  DISABLE_SLEEP,    \* the build flag of the receiver firmware
  wSent,            \* the packet last handed to send (NoWire: none)
  wFrame,           \* the frame in the radio's FIFO, a sequence of bytes (<<>>: none)
  wTamper,          \* what happened to that frame on the air
  wGot,             \* the frame parsePacket reported to the last recv
  wPkt,             \* recv's out-parameter pkt after the last call
  wRet,             \* what the last recv returned
  wLoopPkt,         \* the packet loop() tests for a command after that recv
  wOp,              \* "none" | "send" | "tamper" | "recv"
  \* One WBusSimple object and its UART
  wbusDidBreak,     \* WBusSimple::didBreak
  rxState,          \* "FindHeader" | "ReadLength" | "ReadPayload"
  rxInProgress,     \* the frame being assembled: header, length, payload bytes so far, payloadLen
  rxIndex,          \* WBusSimple::rxIndex
  havePacket,       \* WBusSimple::havePacket
  packetQueue,      \* WBusSimple::packetQueue, the single-slot queue
  portIn,           \* bytes waiting in the UART receive buffer
  portOut,          \* the frame the last sendCommand wrote (<<>>: none)
  portOpen,         \* the UART was opened by begin()
  hRx,              \* what the last step of poll() did, taken from the byte and the state before it
  hBreaks,          \* break pulse sequences since begin()
  hSends,           \* sendCommand calls since begin()
  \* The status poll of the receiver with its multi-status (TLV) request
  tlvSupport,       \* gTlvSupportCache as setup() leaves it: 0 unknown, 1 no, 2 yes
  tlvStatus,        \* state, temperatureC, voltage_mV and power of gStatus
  tlvReqs,          \* the status requests the last poll wrote, as <<cmd, first data byte>>
  tlvItems,         \* the items of the multi-status response the heater sent in the last poll
  tlvGot,           \* gotTlv of the last poll
  tlvOp,            \* "none" | "setup" | "poll" | "restart"
  \* The button menu of either node (static MenuHandler menu) and its host loop
  menu,             \* the fields of the MenuHandler object
  mMillis,          \* millis()
  mPhase,           \* "setup" until begin() has run, then "loop"
  mEv,              \* what the last loop iteration did with the button, and what it reported
  \* The serial line of the sender
  cliEv,            \* the last line loop() read, the number it gave and gSeq before it
  \* The W-BUS traffic of the receiver loop while the heater runs
  kaState,          \* gStatus.state
  kaSincePoll,      \* millis() - gLastPollMs, in ticks, saturated above PollTicks
  kaSession,        \* ticks since a start command set Running or since the last keep-alive (-1: state is not Running)
  kaOut,            \* W-BUS frames written by the last step
  hExecuted,        \* the receiver dispatched the command of the pending or last submit since it began
  otaStatus,        \* gStatus.state of the receiver in the loop with MQTT and OTA
  otaHeaterRunning, \* const bool heaterRunning of the running loop iteration
  updateRequested,  \* OTAUpdater::updateRequested_
  wifiUp,           \* wifiMgr.isConnected()
  otaCmdSource,     \* gLastCommandSource in the loop with MQTT and OTA
  otaPc,            \* where the loop iteration stands
  otaEv             \* what the last step did, with gStatus.state at an update

linkVars == <<lConfigured, lMode, lOp, lResult, lAir>>
wireVars == <<DISABLE_SLEEP, wSent, wFrame, wTamper, wGot, wPkt, wRet, wLoopPkt, wOp>>
tlvVars == <<tlvSupport, tlvStatus, tlvReqs, tlvItems, tlvGot, tlvOp>>
menuVars == <<menu, mMillis, mPhase, mEv>>
cliVars == <<cliEv>>
kaVars == <<kaState, kaSincePoll, kaSession, kaOut>>
otaVars == <<otaStatus, otaHeaterRunning, updateRequested, wifiUp, otaCmdSource,
            otaPc, otaEv>>
wbusVars == <<wbusDidBreak, rxState, rxInProgress, rxIndex, havePacket, packetQueue,
              portIn, portOut, portOpen, hRx, hBreaks, hSends>>

vars == <<sPc, sSeq, gAwaitingCmdSeq, sCmd, sElapsed, sNextSend, gLastMinutes,
          gLastStatus, sResult, sInbox, nCmds,
          rPc, rTimer, rCont, rSincePoll, gStatus, rSeq, gLastProcessedCmdSeq,
          gTlvSupportCache, gLastRunMinutes, didBreak, heaterRunning, rPkt, rInbox,
          heaterOn, heaterLeft, wbusOut, radioOut, rHandled,
          hLastSeq, hSlept, hFirstPkt, hWasRunning, hQuery, hPolls, hIdleAtSubmit,
          hLossless, sGot, trackNonce, encLog, hPreset, gLastCommandSource, hOffAge, hTlv, linkVars, hWbusOpen, wireVars, wbusVars, tlvVars, menuVars, cliVars, kaVars, hExecuted, otaVars>>

senderVars == <<sPc, sSeq, gAwaitingCmdSeq, sCmd, sElapsed, sNextSend, gLastMinutes,
                gLastStatus, sResult, nCmds>>
receiverVars == <<rPc, rTimer, rCont, rSincePoll, gStatus, rSeq, gLastProcessedCmdSeq,
                  gTlvSupportCache, gLastRunMinutes, didBreak, heaterRunning, rPkt>>
heaterVars == <<heaterOn, heaterLeft>>
histVars == <<hLastSeq, hSlept, hFirstPkt, hWasRunning, hQuery, hPolls>>
\* the two nodes, the heater and their history
nodeVars == <<senderVars, sInbox, receiverVars, rInbox, heaterVars, wbusOut, radioOut,
              rHandled, histVars, hIdleAtSubmit, hLossless, sGot, trackNonce, encLog,
              hPreset, gLastCommandSource, hOffAge, hTlv, hWbusOpen>>

(* ---------------- packets ---------------- *)
makeCommandPacket(kind, minutes, seq) ==
  [type |-> "Command", src |-> LORA_NODE_SENDER, dst |-> LORA_NODE_RECEIVER,
   seq |-> seq, kind |-> kind, minutes |-> minutes]

makeStatusPacket(seq, status) ==
  [type |-> "Status", src |-> LORA_NODE_RECEIVER, dst |-> LORA_NODE_SENDER,
   seq |-> seq, status |-> status]

\* AES128CTR::buildNonce: the nonce is (seq, src, dst)
buildNonce(pkt) == <<pkt.seq, pkt.src, pkt.dst>>

\* the plaintext payload of a packet
Plain(pkt) == IF pkt.type = "Command" THEN <<pkt.kind, pkt.minutes>>
              ELSE <<pkt.status.state, pkt.status.lastCmdSeq>>

\* encryptPacket as called from LoRaLink::send: record the nonce and the plaintext
encryptPacket(log, pkt) ==
  IF trackNonce THEN log \cup {[nonce |-> buildNonce(pkt), plain |-> Plain(pkt)]} ELSE log

mapOpState(op) == IF op = 4 THEN "Off" ELSE IF op = 0 THEN "Off" ELSE "Running"

\* the air: a frame that is not lost replaces what waits in the other radio
Deliver(inbox, pkt, delivered) == IF delivered THEN pkt ELSE inbox

\* the radio of the receiver is powered and in receive mode
RxRadioOn == rPc \notin {"sleep", "setup"}

IsCmdForMe(pkt) == pkt.type = "Command" /\ pkt.dst = LORA_NODE_RECEIVER

\* a LoRaLink object before begin()
InitLink ==
  /\ lConfigured = FALSE /\ lMode = "off" /\ lOp = "none" /\ lResult = FALSE
  /\ lAir = <<>>

\* sizeof(Packet::p), the payload union
sizeofUnion == 32

\* the payload union of a packet whose first bytes are given, the rest zero
Union(bytes) == [i \in 1..sizeofUnion |-> IF i <= Len(bytes) THEN bytes[i] ELSE 0]

\* proto::Packet in memory
WirePacket(magic, type, src, dst, seq, payload) ==
  [magic_version |-> magic, type |-> type, src |-> src, dst |-> dst, seq |-> seq,
   raw |-> Union(payload), crc |-> 0]

\* proto::Packet pkt{}
EmptyPacket == WirePacket(0, 0, 0, 0, 0, <<>>)

NoWire == [type |-> 0]

InitWire ==
  /\ wSent = NoWire /\ wFrame = <<>> /\ wTamper = "none" /\ wGot = <<>>
  /\ wPkt = EmptyPacket /\ wRet = FALSE /\ wLoopPkt = EmptyPacket /\ wOp = "none"

\* struct WBusPacket with its default member values
EmptyWBusPacket == [header |-> 0, length |-> 0, payload |-> <<>>, payloadLen |-> 0]

\* poll() has not consumed a byte
NoRx == [did |-> "none", byte |-> 0, sumOk |-> FALSE, queued |-> FALSE, length |-> 0]

\* a WBusSimple object as constructed, before begin()
InitWbus ==
  /\ wbusDidBreak = FALSE /\ rxState = "FindHeader" /\ rxInProgress = EmptyWBusPacket
  /\ rxIndex = 0 /\ havePacket = FALSE /\ packetQueue = EmptyWBusPacket
  /\ portIn = <<>> /\ portOut = <<>> /\ portOpen = FALSE /\ hRx = NoRx
  /\ hBreaks = 0 /\ hSends = 0

\* INT16_MIN, the value of temperatureC when it is unknown
INT16_MIN == -32768

\* setup(): the decoded measurement fields start as unknown
InitTlv ==
  /\ tlvSupport = 0
  /\ tlvStatus = [state |-> "Unknown", temperatureC |-> INT16_MIN, voltage_mV |-> 0, power |-> 0]
  /\ tlvReqs = <<>> /\ tlvItems = <<>> /\ tlvGot = FALSE /\ tlvOp = "none"

\* enum class MenuItem as the integers its static_cast<uint8_t> gives, Count excluded
MenuItemAt == <<"Start", "Stop", "Run10min", "Run20min", "Run30min", "Run90min">>

\* MenuItem::Count
MenuItemCount == 6

\* the last loop iteration did nothing with the button and reported nothing
NoMenuEv == [did |-> "none", pre |-> "Hidden", preItem |-> 0, pressFrom |-> "Hidden",
             reported |-> -1, idle |-> FALSE]

\* MenuHandler: the default member initialisers; millis() is 0 at power-on
InitMenu ==
  /\ menu = [currentState |-> "Hidden", selectedItem |-> 0, lastButtonMs |-> 0,
             buttonPressStartMs |-> 0, buttonWasPressed |-> FALSE, menuShowTimeMs |-> 0,
             itemActivated |-> FALSE]
  /\ mMillis = 0 /\ mPhase = "setup" /\ mEv = NoMenuEv

\* no line has been read from the serial port yet
NoCliEv == [did |-> "none", typed |-> -1, minutes |-> 0, seq |-> 0]

InitCli == cliEv = NoCliEv

\* setup(): gStatus.state is Unknown, nothing was polled or written yet
InitKeep == kaState = "Unknown" /\ kaSincePoll = 0 /\ kaSession = -1 /\ kaOut = <<>>

\* the last step of the loop performed no update
NoOtaEv == [did |-> "none", state |-> "Unknown"]

\* the receiver after setup(): state unknown, no update requested
InitOta ==
  /\ otaStatus = "Unknown" /\ otaHeaterRunning = FALSE /\ updateRequested = FALSE
  /\ wifiUp = FALSE /\ otaCmdSource = "none"
  /\ otaPc = "top" /\ otaEv = NoOtaEv

(* ---------------- initial state: both nodes powered on ---------------- *)
\* everything but the seq counter of the sender
InitRest ==
  /\ sPc = "loop" /\ gAwaitingCmdSeq = 0 /\ sCmd = NoPkt
  /\ sElapsed = 0 /\ sNextSend = 0 /\ gLastMinutes = DEFAULT_RUN_MINUTES
  /\ gLastStatus = NoStatus /\ sResult = "none" /\ sInbox = NoPkt /\ nCmds = 0
  /\ rPc = "setup" /\ rTimer = SetupTicks /\ rCont = "top" /\ rSincePoll = 0
  /\ gStatus = NoStatus /\ rSeq = 1 /\ gLastProcessedCmdSeq = 0
  /\ gTlvSupportCache = 0 /\ gLastRunMinutes = DEFAULT_RUN_MINUTES
  /\ didBreak = FALSE /\ heaterRunning = FALSE /\ rPkt = NoPkt /\ rInbox = NoPkt
  /\ heaterOn = FALSE /\ heaterLeft = 0
  /\ wbusOut = <<>> /\ radioOut = <<>> /\ rHandled = NotHandled /\ sGot = NoPkt
  /\ hLastSeq = -1 /\ hSlept = FALSE /\ hFirstPkt = TRUE /\ hWasRunning = FALSE
  /\ hQuery = FALSE /\ hPolls = 0 /\ hIdleAtSubmit = FALSE
  /\ hLossless = TRUE
  /\ encLog = {}
  /\ hPreset = DEFAULT_RUN_MINUTES
  /\ gLastCommandSource = "none"
  /\ hOffAge = -1
  /\ hTlv = [probes |-> 0, result |-> 0, slept |-> FALSE]
  /\ InitLink
  /\ hWbusOpen = <<>>
  /\ InitWire
  /\ InitWbus
  /\ InitTlv
  /\ InitMenu
  /\ InitCli
  /\ InitKeep
  /\ hExecuted = FALSE
  /\ InitOta

\* static uint16_t gSeq = 1
Init0 == sSeq = 1 /\ InitRest

Init == Init0 /\ trackNonce = FALSE /\ DISABLE_SLEEP = FALSE
InitNonce == Init0 /\ trackNonce = TRUE /\ DISABLE_SLEEP = FALSE

(* ======================= Sender ======================= *)

\* the kinds and minutes the serial line and the menu of the sender can submit
SubmitChoices ==
  {<<"Stop", 0>>, <<"Start", gLastMinutes>>, <<"QueryStatus", 0>>}
    \cup {<<"RunMinutes", m>> : m \in RunChoices}

\* a loop that still runs when millis() - start equals the timeout
AckDeadlinePassed_late(elapsed) == ~(elapsed <= AckTicks)

\* while (millis() - start < SENDER_CMD_ACK_TIMEOUT_MS) is left
AckDeadlinePassed(elapsed) == ~(elapsed < AckTicks)

\* a sender that takes any Status as the acknowledgement
AckMatches_any(status, cmdSeq) == TRUE

\* if (gLastStatus.lastCmdSeq == cmdSeq)
AckMatches(status, cmdSeq) == status.lastCmdSeq = cmdSeq

\* if (pkt.h.type == Status && pkt.h.src == LORA_NODE_RECEIVER)
IsStatusFromReceiver(pkt) == pkt.type = "Status" /\ pkt.src = LORA_NODE_RECEIVER

SendDue == sPc = "await" /\ ~AckDeadlinePassed(sElapsed) /\ sElapsed >= sNextSend

\* sendCommandWithAck, entry: allocate the seq, build the packet
Submit(kind, minutes) ==
  /\ sPc = "loop" /\ sInbox = NoPkt /\ nCmds < MaxCmds
  /\ nCmds' = nCmds + 1
  /\ gLastMinutes' = IF kind = "RunMinutes" THEN minutes ELSE gLastMinutes
  /\ sCmd' = makeCommandPacket(kind, minutes, sSeq)
  /\ gAwaitingCmdSeq' = sSeq
  /\ sSeq' = NextSeq(sSeq)
  /\ sElapsed' = 0 /\ sNextSend' = 0
  /\ sResult' = "none"
  /\ sPc' = "await"
  /\ hIdleAtSubmit' = (rPc \in {"sleep", "setup", "window"} /\ ~heaterOn
                        /\ gStatus.state # "Running" /\ gTlvSupportCache # 0)
  /\ wbusOut' = <<>> /\ radioOut' = <<>> /\ rHandled' = NotHandled
  /\ hLossless' = TRUE /\ sGot' = NoPkt /\ hExecuted' = FALSE
  /\ UNCHANGED <<otaVars, kaVars, menuVars, tlvVars, wbusVars, wireVars, hWbusOpen, linkVars, hTlv, hOffAge, gLastCommandSource, hPreset, gLastStatus, sInbox, receiverVars, rInbox, heaterVars, histVars,
                 trackNonce, encLog>>

\* sendCommandWithAck, loop: if (now >= nextSend) loraLink.send(cmd)
SenderSend(delivered) ==
  /\ SendDue
  /\ (~delivered) => RxRadioOn
  /\ hLossless' = (hLossless /\ delivered)
  /\ sNextSend' = sElapsed + RetryTicks
  /\ encLog' = encryptPacket(encLog, sCmd)
  /\ rInbox' = IF RxRadioOn THEN Deliver(rInbox, sCmd, delivered) ELSE rInbox
  /\ wbusOut' = <<>> /\ radioOut' = <<>> /\ rHandled' = NotHandled
  /\ UNCHANGED <<otaVars, hExecuted, kaVars, cliVars, menuVars, tlvVars, wbusVars, wireVars, hWbusOpen, linkVars, hTlv, hOffAge, gLastCommandSource, hPreset, sPc, sSeq, gAwaitingCmdSeq, sCmd, sElapsed, gLastMinutes, gLastStatus,
                 sResult, sInbox, nCmds, receiverVars, heaterVars, histVars,
                 hIdleAtSubmit, sGot, trackNonce>>

\* sendCommandWithAck, loop: pump RX while waiting
SenderAwaitRecv ==
  /\ sPc = "await" /\ ~AckDeadlinePassed(sElapsed) /\ ~SendDue
  /\ sInbox # NoPkt
  /\ sInbox' = NoPkt /\ sGot' = sInbox
  /\ IF IsStatusFromReceiver(sInbox)
       THEN /\ gLastStatus' = sInbox.status
            /\ IF AckMatches(sInbox.status, sCmd.seq)
                 THEN /\ gAwaitingCmdSeq' = 0 /\ sResult' = "Ok" /\ sPc' = "loop"
                      /\ sCmd' = NoPkt /\ sElapsed' = 0 /\ sNextSend' = 0
                 ELSE UNCHANGED <<gAwaitingCmdSeq, sResult, sPc, sCmd, sElapsed, sNextSend>>
       ELSE UNCHANGED <<gLastStatus, gAwaitingCmdSeq, sResult, sPc, sCmd, sElapsed, sNextSend>>
  /\ wbusOut' = <<>> /\ radioOut' = <<>> /\ rHandled' = NotHandled
  /\ UNCHANGED <<otaVars, hExecuted, kaVars, cliVars, menuVars, tlvVars, wbusVars, wireVars, hWbusOpen, linkVars, hTlv, hOffAge, gLastCommandSource, hPreset, sSeq, gLastMinutes, nCmds,
                 receiverVars, rInbox, heaterVars, histVars, hIdleAtSubmit,
                 hLossless, trackNonce, encLog>>

\* sendCommandWithAck, after the loop: timed out
SenderTimeout ==
  /\ sPc = "await" /\ AckDeadlinePassed(sElapsed)
  /\ gAwaitingCmdSeq' = 0 /\ sResult' = "TimedOut" /\ sPc' = "loop"
  /\ sCmd' = NoPkt /\ sNextSend' = 0
  /\ wbusOut' = <<>> /\ radioOut' = <<>> /\ rHandled' = NotHandled
  /\ UNCHANGED <<otaVars, hExecuted, kaVars, cliVars, menuVars, tlvVars, wbusVars, wireVars, hWbusOpen, linkVars, hTlv, hOffAge, gLastCommandSource, hPreset, sSeq, sElapsed, gLastMinutes, gLastStatus, sInbox,
                 nCmds, receiverVars, rInbox, heaterVars, histVars, hIdleAtSubmit,
                 hLossless, sGot, trackNonce, encLog>>

\* loop() of the sender: receive status from receiver
SenderLoopRecv ==
  /\ sPc = "loop" /\ sInbox # NoPkt
  /\ sInbox' = NoPkt
  /\ gLastStatus' = IF IsStatusFromReceiver(sInbox) THEN sInbox.status ELSE gLastStatus
  /\ wbusOut' = <<>> /\ radioOut' = <<>> /\ rHandled' = NotHandled
  /\ UNCHANGED <<otaVars, hExecuted, kaVars, cliVars, menuVars, tlvVars, wbusVars, wireVars, hWbusOpen, linkVars, hTlv, hOffAge, gLastCommandSource, hPreset, sPc, sSeq, gAwaitingCmdSeq, sCmd, sElapsed, sNextSend, gLastMinutes,
                 sResult, nCmds, receiverVars, rInbox, heaterVars, histVars,
                 hIdleAtSubmit, hLossless, sGot, trackNonce, encLog>>

SenderUrgent ==
  \/ sInbox # NoPkt
  \/ sPc = "await" /\ (SendDue \/ AckDeadlinePassed(sElapsed))

(* ======================= Receiver ======================= *)

Min(a, b) == IF a < b THEN a ELSE b

\* gLastProcessedCmdSeq without RTC_DATA_ATTR: reinitialised to 0 at every wake
RtcLastProcessedCmdSeq_lost(v) == 0

\* RTC_DATA_ATTR gLastProcessedCmdSeq: the value is retained over deep sleep
RtcLastProcessedCmdSeq(v) == v

\* a cache kept in ordinary memory: unknown again after each deep sleep
RtcTlvSupportCache_lost(v) == 0

\* RTC_DATA_ATTR gTlvSupportCache: the value is retained over deep sleep
RtcTlvSupportCache(v) == v

\* a handler that forgets to store the seq into gStatus
WithLastCmdSeq_kept(status, seq) == status

\* a status whose lastCmdSeq is never written
WithLastCmdSeq_zero(status, seq) == [status EXCEPT !.lastCmdSeq = 0]

\* gStatus.lastCmdSeq = gLastProcessedCmdSeq
WithLastCmdSeq(status, seq) == [status EXCEPT !.lastCmdSeq = seq]

\* a handler without the duplicate check
IsDuplicate_never(pkt, last) == FALSE

\* if (pkt.h.seq == gLastProcessedCmdSeq)
IsDuplicate(pkt, last) == pkt.seq = last

\* minutes taken from the packet as they are
EffectiveMinutes_fromPacket(pkt, lastRun) == pkt.minutes

\* gLastRunMinutes = pkt.p.cmd.minutes ? pkt.p.cmd.minutes : gLastRunMinutes
EffectiveMinutes(pkt, lastRun) == IF pkt.minutes # 0 THEN pkt.minutes ELSE lastRun

\* a switch whose default branch starts the heater
CmdFrames_queryStarts(kind, minutes) ==
  CASE kind = "Stop" -> << <<16>> >>
    [] OTHER -> << <<33, minutes>> >>

\* a start frame that carries no minutes byte
CmdFrames_noMinutes(kind, minutes) ==
  CASE kind = "Stop" -> << <<16>> >>
    [] kind \in {"Start", "RunMinutes"} -> << <<33>> >>
    [] OTHER -> << >>

\* the W-BUS frames (command byte, data) the switch over pkt.p.cmd.kind writes
CmdFrames(kind, minutes) ==
  CASE kind = "Stop" -> << <<16>> >>
    [] kind \in {"Start", "RunMinutes"} -> << <<33, minutes>> >>
    [] OTHER -> << >>

\* the heater state the switch sets when the W-BUS call reported success
CmdStateOnOk(kind) == IF kind = "Stop" THEN "Off" ELSE "Running"

\* WBusSimple::sendCommand: the frame is written once and true is returned, whether
\* or not the heater acknowledges (ack)
sendCommand(ack) == TRUE

\* wbus.stop() / wbus.startParkingHeater(): return sendCommand(...)
WBusCommandOk(ack) == sendCommand(ack)

\* a dispatch whose failure leaves gStatus.state as it was
StateAfterCmd_keepsOnFail(state, ok, kind) == IF ok THEN CmdStateOnOk(kind) ELSE state

\* a dispatch that never leaves Error
StateAfterCmd_sticky(state, ok, kind) ==
  IF ok /\ state # "Error" THEN CmdStateOnOk(kind) ELSE "Error"

\* if (ok) gStatus.state = Off / Running;  if (!ok) gStatus.state = Error
StateAfterCmd(state, ok, kind) == IF ok THEN CmdStateOnOk(kind) ELSE "Error"

\* sendStatus: the packet built from gSeq and gStatus
StatusPacket(seq, status) == makeStatusPacket(seq, status)

\* the frames of one poll: operating state, TLV snapshot, simple pages
PollFrames(cache, gotTlv) ==
  << <<80, 7>> >>
    \o (IF cache = 2 THEN << <<80, 48>> >> ELSE << >>)
    \o (IF gotTlv THEN << >>
        ELSE << <<80, 5>>, <<80, 15>>, <<80, 2>>, <<80, 3>>, <<80, 6>> >>)

PollDue(since) == since > PollTicks

\* esp_deep_sleep_start() ended: the chip restarts, only RTC memory is kept
RxWake ==
  /\ rPc = "sleep" /\ rTimer = 0
  /\ rPc' = "setup" /\ rTimer' = SetupTicks /\ rCont' = "top"
  /\ rSincePoll' = 0
  /\ gStatus' = NoStatus
  /\ rSeq' = 1
  /\ gLastProcessedCmdSeq' = RtcLastProcessedCmdSeq(gLastProcessedCmdSeq)
  /\ gTlvSupportCache' = RtcTlvSupportCache(gTlvSupportCache)
  /\ gLastRunMinutes' = DEFAULT_RUN_MINUTES /\ gLastCommandSource' = "none"
  /\ hOffAge' = -1 /\ hWbusOpen' = <<>>
  /\ hTlv' = [hTlv EXCEPT !.slept = (hTlv.probes > 0)]
  /\ didBreak' = FALSE /\ heaterRunning' = FALSE /\ rPkt' = NoPkt /\ rInbox' = NoPkt
  /\ hFirstPkt' = TRUE /\ hWasRunning' = FALSE /\ hQuery' = FALSE /\ hPolls' = 0
  /\ wbusOut' = <<>> /\ radioOut' = <<>> /\ rHandled' = NotHandled
  /\ UNCHANGED <<otaVars, hExecuted, kaVars, cliVars, menuVars, tlvVars, wbusVars, wireVars, linkVars, hPreset, senderVars, sInbox, heaterVars, hLastSeq, hSlept, hIdleAtSubmit,
                 hLossless, sGot, trackNonce, encLog>>

\* setup() after its delay(1000): restore lastCmdSeq, probe TLV support if unknown
RxSetup ==
  /\ rPc = "setup" /\ rTimer = 0
  /\ gStatus' = WithLastCmdSeq(gStatus, gLastProcessedCmdSeq)
  /\ IF gTlvSupportCache = 0
       THEN IF ~didBreak
              THEN rPc' = "break" /\ rTimer' = BreakTicks /\ rCont' = "probe"
              ELSE rPc' = "probe" /\ UNCHANGED <<rTimer, rCont>>
       ELSE rPc' = "top" /\ UNCHANGED <<rTimer, rCont>>
  /\ wbusOut' = <<>> /\ radioOut' = <<>> /\ rHandled' = NotHandled
  /\ UNCHANGED <<otaVars, hExecuted, kaVars, cliVars, menuVars, tlvVars, wbusVars, wireVars, hWbusOpen, linkVars, hTlv, hOffAge, gLastCommandSource, hPreset, senderVars, sInbox, rSincePoll, rSeq, gLastProcessedCmdSeq,
                 gTlvSupportCache, gLastRunMinutes, didBreak, heaterRunning, rPkt,
                 rInbox, heaterVars, histVars, hIdleAtSubmit, hLossless, sGot, trackNonce, encLog>>

\* WBusSimple::sendBreakPulse finished (first sendCommand since power-on)
RxBreakDone ==
  /\ rPc = "break" /\ rTimer = 0
  /\ didBreak' = TRUE
  /\ rPc' = rCont /\ rCont' = "top"
  /\ wbusOut' = <<>> /\ radioOut' = <<>> /\ rHandled' = NotHandled
  /\ UNCHANGED <<otaVars, hExecuted, kaVars, cliVars, menuVars, tlvVars, wbusVars, wireVars, hWbusOpen, linkVars, hTlv, hOffAge, gLastCommandSource, hPreset, senderVars, sInbox, rTimer, rSincePoll, gStatus, rSeq,
                 gLastProcessedCmdSeq, gTlvSupportCache, gLastRunMinutes, heaterRunning,
                 rPkt, rInbox, heaterVars, histVars, hIdleAtSubmit, hLossless, sGot, trackNonce, encLog>>

\* setup(): gTlvSupported = tryPollMultiStatusOnce(wbus, scratch)
RxProbe(supported) ==
  /\ rPc = "probe"
  /\ wbusOut' = << <<80, 48>> >>
  /\ gTlvSupportCache' = IF supported THEN 2 ELSE 1
  /\ rPc' = "top"
  /\ radioOut' = <<>> /\ rHandled' = [NotHandled EXCEPT !.probe = TRUE, !.open = hWbusOpen]
  /\ hWbusOpen' = <<>>
  /\ hTlv' = [probes |-> Min(hTlv.probes + 1, 2),
              result |-> IF supported THEN 2 ELSE 1, slept |-> FALSE]
  /\ UNCHANGED <<otaVars, hExecuted, kaVars, cliVars, menuVars, tlvVars, wbusVars, wireVars, linkVars, hOffAge, gLastCommandSource, hPreset, senderVars, sInbox, rTimer, rCont, rSincePoll, gStatus, rSeq,
                 gLastProcessedCmdSeq, gLastRunMinutes, didBreak, heaterRunning, rPkt,
                 rInbox, heaterVars, histVars, hIdleAtSubmit, hLossless, sGot, trackNonce, encLog>>

\* loop() entry: heaterRunning decides between the idle window and the awake loop
RxLoopTop ==
  /\ rPc = "top"
  /\ IF gStatus.state # "Running"
       THEN /\ heaterRunning' = FALSE
            /\ rPc' = "window" /\ rTimer' = WindowTicks
            /\ rPkt' = NoPkt
            /\ UNCHANGED rInbox
       ELSE /\ (rInbox # NoPkt \/ PollDue(rSincePoll))
            /\ heaterRunning' = TRUE
            /\ rPkt' = rInbox /\ rInbox' = NoPkt
            /\ rPc' = "cmd"
            /\ UNCHANGED rTimer
  /\ wbusOut' = <<>> /\ radioOut' = <<>> /\ rHandled' = NotHandled
  /\ UNCHANGED <<otaVars, hExecuted, kaVars, cliVars, menuVars, tlvVars, wbusVars, wireVars, hWbusOpen, linkVars, hTlv, hOffAge, gLastCommandSource, hPreset, senderVars, sInbox, rCont, rSincePoll, gStatus, rSeq,
                 gLastProcessedCmdSeq, gTlvSupportCache, gLastRunMinutes, didBreak,
                 heaterVars, histVars, hIdleAtSubmit, hLossless, sGot, trackNonce, encLog>>

\* tryReceiveCommandWindow: a frame was received inside the window
RxWindowRecv ==
  /\ rPc = "window" /\ rTimer > 0 /\ rInbox # NoPkt
  /\ rInbox' = NoPkt
  /\ IF IsCmdForMe(rInbox)
       THEN rPkt' = rInbox /\ rPc' = "cmd" /\ rTimer' = 0 /\ UNCHANGED hFirstPkt
       ELSE hFirstPkt' = FALSE /\ UNCHANGED <<rPkt, rPc, rTimer>>
  /\ wbusOut' = <<>> /\ radioOut' = <<>> /\ rHandled' = NotHandled
  /\ UNCHANGED <<otaVars, hExecuted, kaVars, cliVars, menuVars, tlvVars, wbusVars, wireVars, hWbusOpen, linkVars, hTlv, hOffAge, gLastCommandSource, hPreset, senderVars, sInbox, rCont, rSincePoll, gStatus, rSeq,
                 gLastProcessedCmdSeq, gTlvSupportCache, gLastRunMinutes, didBreak,
                 heaterRunning, heaterVars, hLastSeq, hSlept, hWasRunning, hQuery,
                 hPolls, hIdleAtSubmit, hLossless, sGot, trackNonce, encLog>>

\* tryReceiveCommandWindow returned false: enterDeepSleepMs(RX_IDLE_SLEEP_MS)
RxWindowExpire ==
  /\ rPc = "window" /\ rTimer = 0
  /\ rPc' = "sleep" /\ rTimer' = SleepTicks
  /\ rInbox' = NoPkt /\ rSincePoll' = 0
  /\ hSlept' = TRUE
  /\ wbusOut' = <<>> /\ radioOut' = <<>> /\ rHandled' = NotHandled
  /\ UNCHANGED <<otaVars, hExecuted, kaVars, cliVars, menuVars, tlvVars, wbusVars, wireVars, hWbusOpen, linkVars, hTlv, hOffAge, gLastCommandSource, hPreset, senderVars, sInbox, rCont, gStatus, rSeq, gLastProcessedCmdSeq,
                 gTlvSupportCache, gLastRunMinutes, didBreak, heaterRunning, rPkt,
                 heaterVars, hLastSeq, hFirstPkt, hWasRunning, hQuery, hPolls,
                 hIdleAtSubmit, hLossless, sGot, trackNonce, encLog>>

\* loop(): command handling (deduplicate, dispatch to W-BUS, acknowledge)
RxCommand(ack, delivered) ==
  /\ rPc = "cmd"
  /\ IF ~IsCmdForMe(rPkt)
       THEN \* no command in this iteration
            /\ rPc' = "poll"
            /\ wbusOut' = <<>> /\ radioOut' = <<>> /\ rHandled' = NotHandled
            /\ hFirstPkt' = (hFirstPkt /\ rPkt = NoPkt)
            /\ ack /\ delivered
            /\ UNCHANGED <<rTimer, rCont, gStatus, rSeq, gLastProcessedCmdSeq,
                           gLastRunMinutes, sInbox, heaterVars, encLog,
                           hLastSeq, hSlept, hWasRunning, hQuery, hPolls, hLossless,
                           hPreset, gLastCommandSource, hOffAge, hWbusOpen, hExecuted>>
       ELSE IF IsDuplicate(rPkt, gLastProcessedCmdSeq)
       THEN \* duplicate: just ACK
            LET st == WithLastCmdSeq(gStatus, gLastProcessedCmdSeq)
                pkt == StatusPacket(rSeq, st)
            IN /\ ack
               /\ gStatus' = st
               /\ rSeq' = NextSeq(rSeq)
               /\ radioOut' = <<pkt>> /\ sInbox' = Deliver(sInbox, pkt, delivered)
               /\ hLossless' = (hLossless /\ delivered)
               /\ encLog' = encryptPacket(encLog, pkt)
               /\ wbusOut' = <<>>
               /\ rPc' = "poll"
               /\ rHandled' = [cmd |-> TRUE, dup |-> rPkt.seq = gLastProcessedCmdSeq,
                               afterWake |-> hSlept /\ hFirstPkt /\ rPkt.seq = hLastSeq,
                               kind |-> rPkt.kind, ok |-> FALSE, ack |-> FALSE,
                               prev |-> gStatus.state,
                               minutes |-> rPkt.minutes, lastRun |-> gLastRunMinutes,
                               source |-> "none", probe |-> FALSE, open |-> hWbusOpen,
                               first |-> hLastSeq = -1]
               /\ hLastSeq' = rPkt.seq /\ hSlept' = FALSE /\ hFirstPkt' = FALSE
               /\ UNCHANGED <<rTimer, rCont, gLastProcessedCmdSeq, gLastRunMinutes,
                              heaterVars, hWasRunning, hQuery, hPolls, hPreset,
                              gLastCommandSource, hOffAge, hWbusOpen, hExecuted>>
       ELSE IF CmdFrames(rPkt.kind, 0) # <<>> /\ ~didBreak
       THEN \* the first sendCommand since power-on starts with the break pulse
            /\ rPc' = "break" /\ rTimer' = BreakTicks /\ rCont' = "cmd"
            /\ wbusOut' = <<>> /\ radioOut' = <<>> /\ rHandled' = NotHandled
            /\ ack /\ delivered
            /\ UNCHANGED <<gStatus, rSeq, gLastProcessedCmdSeq, gLastRunMinutes, sInbox,
                           heaterVars, encLog, histVars, hLossless, hPreset,
                           gLastCommandSource, hOffAge, hWbusOpen, hExecuted>>
       ELSE LET kind == rPkt.kind
                minutes == IF kind \in {"Start", "RunMinutes"}
                             THEN EffectiveMinutes(rPkt, gLastRunMinutes)
                             ELSE gLastRunMinutes
                frames == CmdFrames(kind, minutes)
                ok == IF frames # <<>> THEN WBusCommandOk(ack) ELSE FALSE
                st == WithLastCmdSeq(
                        [gStatus EXCEPT !.state = StateAfterCmd(gStatus.state, ok, kind)],
                        rPkt.seq)
                pkt == StatusPacket(rSeq, st)
            IN /\ (frames = <<>>) => ack
               /\ gLastRunMinutes' = minutes
               /\ wbusOut' = frames
               /\ gStatus' = st
               /\ gLastCommandSource' = "lora"
               /\ gLastProcessedCmdSeq' = rPkt.seq
               /\ rSeq' = NextSeq(rSeq)
               /\ radioOut' = <<pkt>> /\ sInbox' = Deliver(sInbox, pkt, delivered)
               /\ hLossless' = (hLossless /\ delivered)
               /\ encLog' = encryptPacket(encLog, pkt)
               /\ heaterOn' = IF frames # <<>> /\ ack THEN kind # "Stop" ELSE heaterOn
               /\ heaterLeft' = IF frames # <<>> /\ ack
                                  THEN (IF kind = "Stop" THEN 0 ELSE MaxRunPolls)
                                  ELSE heaterLeft
               /\ rPc' = "poll"
               /\ rHandled' = [cmd |-> TRUE, dup |-> rPkt.seq = gLastProcessedCmdSeq,
                               afterWake |-> hSlept /\ hFirstPkt /\ rPkt.seq = hLastSeq,
                               kind |-> rPkt.kind,
                               ok |-> ok, ack |-> ack, prev |-> gStatus.state,
                               minutes |-> rPkt.minutes, lastRun |-> gLastRunMinutes,
                               source |-> "lora", probe |-> FALSE, open |-> hWbusOpen,
                               first |-> hLastSeq = -1]
               /\ hLastSeq' = rPkt.seq /\ hSlept' = FALSE /\ hFirstPkt' = FALSE
               /\ hWasRunning' = (hWasRunning \/ st.state = "Running")
               /\ hQuery' = (kind = "QueryStatus" /\ ~heaterRunning)
               /\ hPolls' = 0
               /\ hExecuted' = (hExecuted \/ rPkt = sCmd)
               /\ hPreset' = IF kind = "RunMinutes" /\ rPkt.minutes # 0
                               THEN rPkt.minutes ELSE hPreset
               /\ hOffAge' = IF st.state = "Running" THEN -1
                               ELSE IF hOffAge >= 0 THEN 0 ELSE hOffAge
               /\ hWbusOpen' = IF frames # <<>> THEN frames[Len(frames)] ELSE hWbusOpen
               /\ UNCHANGED <<rTimer, rCont>>
  /\ UNCHANGED <<otaVars, kaVars, cliVars, menuVars, tlvVars, wbusVars, wireVars, linkVars, hTlv, senderVars, rSincePoll, gTlvSupportCache, didBreak, heaterRunning,
                 rPkt, rInbox, hIdleAtSubmit, sGot, trackNonce>>

\* loop(): if (millis() - gLastPollMs > 2000) gLastPollMs = millis()
RxPollCheck ==
  /\ rPc = "poll"
  /\ IF PollDue(rSincePoll)
       THEN /\ rSincePoll' = 0
            /\ IF ~didBreak
                 THEN rPc' = "break" /\ rTimer' = BreakTicks /\ rCont' = "pollbody"
                 ELSE rPc' = "pollbody" /\ UNCHANGED <<rTimer, rCont>>
            /\ UNCHANGED rPkt
       ELSE /\ rPc' = "top" /\ rPkt' = NoPkt
            /\ UNCHANGED <<rSincePoll, rTimer, rCont>>
  /\ wbusOut' = <<>> /\ radioOut' = <<>> /\ rHandled' = NotHandled
  /\ UNCHANGED <<otaVars, hExecuted, kaVars, cliVars, menuVars, tlvVars, wbusVars, wireVars, hWbusOpen, linkVars, hTlv, hOffAge, gLastCommandSource, hPreset, senderVars, sInbox, gStatus, rSeq, gLastProcessedCmdSeq,
                 gTlvSupportCache, gLastRunMinutes, didBreak, heaterRunning, rInbox,
                 heaterVars, histVars, hIdleAtSubmit, hLossless, sGot, trackNonce, encLog>>

\* loop(): the poll itself: readOperatingState, TLV snapshot or simple pages, sendStatus(0, 0)
RxPollBody(answered, gotTlv, delivered) ==
  /\ rPc = "pollbody"
  /\ (~answered) => (heaterOn /\ heaterLeft > 0)
  /\ gotTlv => gTlvSupportCache = 2
  /\ LET op == IF heaterOn THEN OpStateBurning ELSE OpStateOff
         st == IF answered
                 THEN [gStatus EXCEPT !.state = mapOpState(op)]
                 ELSE gStatus
         pkt == StatusPacket(rSeq, st)
     IN /\ gStatus' = st
        /\ wbusOut' = PollFrames(gTlvSupportCache, gotTlv)
        /\ rSeq' = NextSeq(rSeq)
        /\ radioOut' = <<pkt>> /\ sInbox' = Deliver(sInbox, pkt, delivered)
        /\ hLossless' = (hLossless /\ delivered)
        /\ encLog' = encryptPacket(encLog, pkt)
        /\ hWasRunning' = (hWasRunning \/ st.state = "Running")
        /\ hOffAge' = IF gStatus.state = "Running" /\ st.state = "Off" THEN 0 ELSE hOffAge
        /\ hWbusOpen' = <<>>
  /\ heaterLeft' = IF heaterOn /\ heaterLeft > 0 THEN heaterLeft - 1 ELSE 0
  /\ heaterOn' = (heaterOn /\ heaterLeft > 1)
  /\ hPolls' = Min(hPolls + 1, 2)
  /\ rPc' = "top" /\ rPkt' = NoPkt /\ rHandled' = [NotHandled EXCEPT !.open = hWbusOpen]
  /\ UNCHANGED <<otaVars, hExecuted, kaVars, cliVars, menuVars, tlvVars, wbusVars, wireVars, linkVars, hTlv, gLastCommandSource, hPreset, senderVars, rTimer, rCont, rSincePoll, gLastProcessedCmdSeq,
                 gTlvSupportCache, gLastRunMinutes, didBreak, heaterRunning, rInbox,
                 hLastSeq, hSlept, hFirstPkt, hQuery, hIdleAtSubmit, sGot, trackNonce>>

ReceiverUrgent ==
  \/ rPc \in {"cmd", "poll", "pollbody", "probe"}
  \/ rPc \in {"sleep", "setup", "break", "window"} /\ rTimer = 0
  \/ rPc = "window" /\ rInbox # NoPkt
  \/ rPc = "top" /\ (gStatus.state # "Running" \/ rInbox # NoPkt \/ PollDue(rSincePoll))

(* ======================= Time ======================= *)

\* one tick of time passes on both nodes; nothing that is due is left waiting
Tick ==
  /\ ~SenderUrgent /\ ~ReceiverUrgent
  /\ sElapsed' = IF sPc = "await" THEN sElapsed + 1 ELSE sElapsed
  /\ rTimer' = IF rTimer > 0 THEN rTimer - 1 ELSE 0
  /\ rSincePoll' = IF rPc = "sleep" THEN 0 ELSE Min(rSincePoll + 1, PollTicks + 1)
  /\ hOffAge' = IF hOffAge >= 0 /\ rPc # "sleep"
                  THEN Min(hOffAge + 1, ExtendedWakeTicks) ELSE hOffAge
  /\ hWbusOpen' = <<>>
  /\ wbusOut' = <<>> /\ radioOut' = <<>> /\ rHandled' = NotHandled
  /\ UNCHANGED <<otaVars, hExecuted, kaVars, cliVars, menuVars, tlvVars, wbusVars, wireVars, linkVars, hTlv, gLastCommandSource, hPreset, sPc, sSeq, gAwaitingCmdSeq, sCmd, sNextSend, gLastMinutes, gLastStatus,
                 sResult, sInbox, nCmds, rPc, rCont, gStatus, rSeq, gLastProcessedCmdSeq,
                 gTlvSupportCache, gLastRunMinutes, didBreak, heaterRunning, rPkt, rInbox,
                 heaterVars, histVars, hIdleAtSubmit, hLossless, sGot, trackNonce, encLog>>

Next ==
  \/ \E c \in SubmitChoices : Submit(c[1], c[2]) /\ UNCHANGED cliVars
  \/ \E delivered \in BOOLEAN : SenderSend(delivered)
  \/ SenderAwaitRecv
  \/ SenderTimeout
  \/ SenderLoopRecv
  \/ RxWake
  \/ RxSetup
  \/ RxBreakDone
  \/ \E supported \in BOOLEAN : RxProbe(supported)
  \/ RxLoopTop
  \/ RxWindowRecv
  \/ RxWindowExpire
  \/ \E ack \in BOOLEAN, delivered \in BOOLEAN : RxCommand(ack, delivered)
  \/ RxPollCheck
  \/ \E answered \in BOOLEAN, gotTlv \in BOOLEAN, delivered \in BOOLEAN :
       RxPollBody(answered, gotTlv, delivered)
  \/ Tick

Spec == Init /\ [][Next]_vars
SpecNonce == InitNonce /\ [][Next]_vars

(* ============ The receiver against any stream of radio commands ============ *)

\* the kinds and minutes a radio Command can carry: the menu and serial line of a
\* sender (Stop 0, Start <preset>, RunMinutes 10/20/30/90) and a Start without minutes
RadioChoices ==
  {<<"Stop", 0>>, <<"Start", 0>>, <<"Start", 10>>, <<"RunMinutes", 20>>,
   <<"QueryStatus", 0>>}

\* LoRaLink::recv: a Command frame with a fresh seq reaches the receiver's radio
RadioCommand(kind, minutes) ==
  /\ sPc = "loop" /\ nCmds < MaxCmds
  /\ RxRadioOn /\ rInbox = NoPkt
  /\ rInbox' = makeCommandPacket(kind, minutes, sSeq)
  /\ sSeq' = NextSeq(sSeq) /\ nCmds' = nCmds + 1
  /\ wbusOut' = <<>> /\ radioOut' = <<>> /\ rHandled' = NotHandled
  /\ UNCHANGED <<otaVars, hExecuted, kaVars, cliVars, menuVars, tlvVars, wbusVars, wireVars, hWbusOpen, linkVars, hTlv, hOffAge, gLastCommandSource, sPc, gAwaitingCmdSeq, sCmd, sElapsed, sNextSend, gLastMinutes,
                 gLastStatus, sResult, sInbox, receiverVars, heaterVars, histVars,
                 hIdleAtSubmit, hLossless, sGot, trackNonce, encLog, hPreset>>

NextRx ==
  \/ \E c \in RadioChoices : RadioCommand(c[1], c[2])
  \/ SenderLoopRecv
  \/ RxWake
  \/ RxSetup
  \/ RxBreakDone
  \/ \E supported \in BOOLEAN : RxProbe(supported)
  \/ RxLoopTop
  \/ RxWindowRecv
  \/ RxWindowExpire
  \/ \E ack, delivered \in BOOLEAN : RxCommand(ack, delivered)
  \/ RxPollCheck
  \/ \E answered, gotTlv, delivered \in BOOLEAN : RxPollBody(answered, gotTlv, delivered)
  \/ Tick

SpecRx == Init /\ [][NextRx]_vars

(* ============ The receiver with its three command sources ============ *)

\* enum class MenuItem, and the kind and minutes each item stands for
MenuItems == {"Start", "Stop", "Run10min", "Run20min", "Run30min", "Run90min"}
MenuKindOf == [Start |-> "Start", Stop |-> "Stop", Run10min |-> "RunMinutes",
               Run20min |-> "RunMinutes", Run30min |-> "RunMinutes",
               Run90min |-> "RunMinutes"]
MenuMinutesOf == [Start |-> 0, Stop |-> 0, Run10min |-> 10, Run20min |-> 20,
                  Run30min |-> 30, Run90min |-> 90]

\* a menu whose Run items start the heater without changing gLastRunMinutes
MenuMinutes_keeps(item, lastRun) == lastRun

\* handleMenuSelection: gLastRunMinutes after the case of the item
MenuMinutes(item, lastRun) ==
  CASE item = "Run10min" -> 10
    [] item = "Run20min" -> 20
    [] item = "Run30min" -> 30
    [] item = "Run90min" -> 90
    [] OTHER -> lastRun

\* handleMenuSelection: wbus.stop() or wbus.startParkingHeater(gLastRunMinutes)
MenuFrames(item, minutes) ==
  IF item = "Stop" THEN << <<16>> >> ELSE << <<33, minutes>> >>

\* handleMenuSelection: the state is assigned on success only, the else branches are empty
StateAfterMenu(state, ok, item) ==
  IF ok THEN (IF item = "Stop" THEN "Off" ELSE "Running") ELSE state

\* loop(): an iteration without a poll ends with menu.isItemActivated(item) and
\* handleMenuSelection(item); the break pulse has been sent earlier
RxMenu(item, ack) ==
  /\ rPc = "poll" /\ ~PollDue(rSincePoll) /\ didBreak
  /\ LET minutes == MenuMinutes(item, gLastRunMinutes)
         frames == MenuFrames(item, minutes)
         ok == WBusCommandOk(ack)
         st == [gStatus EXCEPT !.state = StateAfterMenu(gStatus.state, ok, item)]
     IN /\ gLastCommandSource' = "button"
        /\ gLastRunMinutes' = minutes
        /\ wbusOut' = frames
        /\ gStatus' = st
        /\ heaterOn' = IF ack THEN item # "Stop" ELSE heaterOn
        /\ heaterLeft' = IF ack THEN (IF item = "Stop" THEN 0 ELSE MaxRunPolls)
                          ELSE heaterLeft
        /\ hWasRunning' = (hWasRunning \/ st.state = "Running")
        /\ hOffAge' = IF st.state = "Running" THEN -1 ELSE hOffAge
        /\ hWbusOpen' = IF frames # <<>> THEN frames[Len(frames)] ELSE hWbusOpen
        /\ rHandled' = [NotHandled EXCEPT !.open = hWbusOpen, !.source = "button", !.kind = MenuKindOf[item],
                                          !.minutes = MenuMinutesOf[item],
                                          !.lastRun = gLastRunMinutes,
                                          !.prev = gStatus.state, !.ok = ok, !.ack = ack]
  /\ rPc' = "top" /\ rPkt' = NoPkt /\ radioOut' = <<>>
  /\ UNCHANGED <<otaVars, hExecuted, kaVars, cliVars, menuVars, tlvVars, wbusVars, wireVars, linkVars, hTlv, senderVars, sInbox, rTimer, rCont, rSincePoll, rSeq,
                 gLastProcessedCmdSeq, gTlvSupportCache, didBreak, heaterRunning, rInbox,
                 hLastSeq, hSlept, hFirstPkt, hQuery, hPolls, hIdleAtSubmit, hLossless,
                 sGot, trackNonce, encLog, hPreset>>

\* MQTTClient::handleMessage: the commands the mode, minutes and query topics produce
MqttChoices ==
  {<<"STOP", 0>>, <<"START", 30>>, <<"RUN_MINUTES", 10>>, <<"RUN_MINUTES", 90>>,
   <<"QUERY_STATUS", 0>>}
MqttKindOf == [STOP |-> "Stop", START |-> "Start", RUN_MINUTES |-> "RunMinutes",
               QUERY_STATUS |-> "QueryStatus"]

\* the command callback: gLastRunMinutes after the case of cmd.type
MqttMinutes(type, minutes, lastRun) ==
  CASE type = "START" -> IF minutes # 0 THEN minutes ELSE lastRun
    [] type = "RUN_MINUTES" -> minutes
    [] OTHER -> lastRun

\* the command callback: wbus.stop() or wbus.startParkingHeater(gLastRunMinutes)
MqttFrames(type, minutes) ==
  CASE type = "STOP" -> << <<16>> >>
    [] type \in {"START", "RUN_MINUTES"} -> << <<33, minutes>> >>
    [] OTHER -> << >>

\* the command callback: Off / Running on success, if (!ok) Error
StateAfterMqtt(state, ok, type) ==
  IF ok THEN (IF type = "STOP" THEN "Off" ELSE "Running") ELSE "Error"

\* loop(): an iteration without a poll ends with mqttClient.update() delivering a
\* command to the command callback
RxMqtt(type, cmdMinutes, ack) ==
  /\ rPc = "poll" /\ ~PollDue(rSincePoll)
  /\ LET minutes == MqttMinutes(type, cmdMinutes, gLastRunMinutes)
         frames == MqttFrames(type, minutes)
         ok == IF frames # <<>> THEN WBusCommandOk(ack) ELSE FALSE
         st == [gStatus EXCEPT !.state = StateAfterMqtt(gStatus.state, ok, type)]
     IN /\ (frames # <<>>) => didBreak
        /\ (frames = <<>>) => ack
        /\ gLastCommandSource' = "mqtt"
        /\ gLastRunMinutes' = minutes
        /\ wbusOut' = frames
        /\ gStatus' = st
        /\ heaterOn' = IF frames # <<>> /\ ack THEN type # "STOP" ELSE heaterOn
        /\ heaterLeft' = IF frames # <<>> /\ ack
                           THEN (IF type = "STOP" THEN 0 ELSE MaxRunPolls)
                           ELSE heaterLeft
        /\ hWasRunning' = (hWasRunning \/ st.state = "Running")
        /\ hOffAge' = IF st.state = "Running" THEN -1 ELSE hOffAge
        /\ hWbusOpen' = IF frames # <<>> THEN frames[Len(frames)] ELSE hWbusOpen
        /\ rHandled' = [NotHandled EXCEPT !.open = hWbusOpen, !.source = "mqtt", !.kind = MqttKindOf[type],
                                          !.minutes = cmdMinutes,
                                          !.lastRun = gLastRunMinutes,
                                          !.prev = gStatus.state, !.ok = ok, !.ack = ack]
  /\ rPc' = "top" /\ rPkt' = NoPkt /\ radioOut' = <<>>
  /\ UNCHANGED <<otaVars, hExecuted, kaVars, cliVars, menuVars, tlvVars, wbusVars, wireVars, linkVars, hTlv, senderVars, sInbox, rTimer, rCont, rSincePoll, rSeq,
                 gLastProcessedCmdSeq, gTlvSupportCache, didBreak, heaterRunning, rInbox,
                 hLastSeq, hSlept, hFirstPkt, hQuery, hPolls, hIdleAtSubmit, hLossless,
                 sGot, trackNonce, encLog, hPreset>>

NextSources ==
  \/ \E c \in RadioChoices : RadioCommand(c[1], c[2])
  \/ \E item \in MenuItems, ack \in BOOLEAN : RxMenu(item, ack)
  \/ \E c \in MqttChoices, ack \in BOOLEAN : RxMqtt(c[1], c[2], ack)
  \/ SenderLoopRecv
  \/ RxWake
  \/ RxSetup
  \/ RxBreakDone
  \/ \E supported \in BOOLEAN : RxProbe(supported)
  \/ RxLoopTop
  \/ RxWindowRecv
  \/ RxWindowExpire
  \/ \E ack, delivered \in BOOLEAN : RxCommand(ack, delivered)
  \/ RxPollCheck
  \/ \E answered, gotTlv, delivered \in BOOLEAN : RxPollBody(answered, gotTlv, delivered)
  \/ Tick

SpecSources == Init /\ [][NextSources]_vars

TypeOK ==
  /\ sPc \in {"loop", "await"}
  /\ rPc \in {"sleep", "setup", "break", "probe", "top", "window", "cmd", "poll", "pollbody"}
  /\ sElapsed \in 0..AckTicks
  /\ rSincePoll \in 0..(PollTicks + 1)
  /\ sSeq \in 0..(SeqModulus - 1) /\ rSeq \in 0..(SeqModulus - 1)
  /\ gStatus.state \in {"Unknown", "Off", "Running", "Error"}

(* ======================= LoRaLink ======================= *)

\* the packets a node hands to LoRaLink::send
LinkPackets ==
  {makeCommandPacket(k, 0, Len(lAir) + 1) : k \in {"Stop", "QueryStatus"}}
    \cup {makeStatusPacket(Len(lAir) + 1, [state |-> s, lastCmdSeq |-> 0]) :
             s \in {"Off", "Running"}}

\* where LoRaLink::send can leave: the end, or one of its failure returns
SendOutcomes == {"ok", "beginPacket", "write", "endPacket"}

\* a send that returns true without calling LoRa.receive()
ModeAfterSend_noReceive(outcome, mode) ==
  IF outcome = "beginPacket" THEN mode ELSE "standby"

\* the chip after LoRaLink::send: LoRa.beginPacket() puts it in standby, a
\* transmission ends in standby, and only the last statement, LoRa.receive(),
\* returns it to receive mode
ModeAfterSend(outcome, mode) ==
  CASE outcome = "ok" -> "rx"
    [] outcome = "beginPacket" -> mode
    [] OTHER -> "standby"

\* LoRaLink::begin
LinkBegin(ok) ==
  /\ lMode \in {"off", "sleep"}
  /\ lConfigured' = ok
  /\ lMode' = IF ok THEN "rx" ELSE "off"
  /\ lOp' = "begin" /\ lResult' = ok
  /\ UNCHANGED <<otaVars, hExecuted, kaVars, cliVars, menuVars, tlvVars, wbusVars, wireVars, hWbusOpen, lAir, nodeVars>>

\* LoRaLink::send
LinkSend(pkt, outcome) ==
  /\ lMode \in {"standby", "rx"} \/ ~lConfigured
  /\ Len(lAir) < MaxSends
  /\ lOp' = "send"
  /\ IF ~lConfigured
       THEN /\ outcome = "ok"
            /\ lResult' = FALSE /\ UNCHANGED <<lMode, lAir>>
       ELSE /\ lResult' = (outcome = "ok")
            /\ lMode' = ModeAfterSend(outcome, lMode)
            /\ lAir' = IF outcome \in {"ok", "endPacket"} THEN Append(lAir, pkt) ELSE lAir
  /\ UNCHANGED <<otaVars, hExecuted, kaVars, cliVars, menuVars, tlvVars, wbusVars, wireVars, hWbusOpen, lConfigured, nodeVars>>

\* LoRaLink::recv: LoRa.parsePacket() leaves the chip in standby when it has read a
\* packet out of it and in single receive mode otherwise
LinkRecv(got) ==
  /\ lConfigured /\ lMode \in {"standby", "rx"}
  /\ lMode' = IF got THEN "standby" ELSE "rx"
  /\ lOp' = "recv" /\ lResult' = got
  /\ UNCHANGED <<otaVars, hExecuted, kaVars, cliVars, menuVars, tlvVars, wbusVars, wireVars, hWbusOpen, lConfigured, lAir, nodeVars>>

\* enterDeepSleepMs: LoRa.sleep(), then the chip and the program restart
LinkSleep ==
  /\ lConfigured /\ lMode \in {"standby", "rx"}
  /\ lMode' = "sleep" /\ lConfigured' = FALSE
  /\ lOp' = "sleep" /\ lResult' = TRUE
  /\ UNCHANGED <<otaVars, hExecuted, kaVars, cliVars, menuVars, tlvVars, wbusVars, wireVars, hWbusOpen, lAir, nodeVars>>

NextLink ==
  \/ \E ok \in BOOLEAN : LinkBegin(ok)
  \/ \E pkt \in LinkPackets, outcome \in SendOutcomes : LinkSend(pkt, outcome)
  \/ \E got \in BOOLEAN : LinkRecv(got)
  \/ LinkSleep

SpecLink == Init /\ [][NextLink]_vars

(* ======================= Radio wire format ======================= *)

\* sizeof(proto::PacketHeader), sizeof(Packet::crc), sizeof(Packet::p), and the
\* payload sizes by message type code
sizeofPacketHeader == 6
sizeofCrc == 2
MsgTypeCode == [Command |-> 1, Status |-> 2, Ack |-> 3]
HeaterStateCode == [Unknown |-> 0, Off |-> 1, Running |-> 2, Error |-> 3]
CommandKindCode == [Stop |-> 1, Start |-> 2, RunMinutes |-> 3]

RECURSIVE Xor(_, _)
\* bitwise exclusive or of two naturals
Xor(a, b) ==
  IF a = 0 THEN b
  ELSE IF b = 0 THEN a
  ELSE (((a % 2) + (b % 2)) % 2) + 2 * Xor(a \div 2, b \div 2)

RECURSIVE crcShift(_, _)
\* the inner loop of CRC-16/CCITT: n shifts with polynomial 0x1021
crcShift(crc, n) ==
  IF n = 0 THEN crc
  ELSE crcShift(IF crc >= 32768 THEN Xor((crc * 2) % 65536, 4129)
                ELSE (crc * 2) % 65536, n - 1)

\* the eight shifts of every possible high byte
crcTable == [b \in 0..255 |-> crcShift(b * 256, 8)]

\* one byte into the CRC
crcUpdate(crc, byte) == Xor((crc % 256) * 256, crcTable[Xor(crc \div 256, byte)])

RECURSIVE crcFrom(_, _, _)
crcFrom(crc, data, i) ==
  IF i > Len(data) THEN crc
  ELSE crcFrom(crcUpdate(crc, data[i]), data, i + 1)

\* crc16_ccitt: polynomial 0x1021, initial value 0xFFFF, no final XOR
crc16_ccitt(data) == crcFrom(65535, data, 1)

\* int8_t and int16_t fields as stored in the packed structs
ToU8(v) == (v + 256) % 256
FromU8(b) == IF b >= 128 THEN b - 256 ELSE b
ToU16(v) == (v + 65536) % 65536
FromU16(w) == IF w >= 32768 THEN w - 65536 ELSE w
Lo(w) == w % 256
Hi(w) == w \div 256

\* struct CommandPayload and struct StatusPayload, packed, little-endian
CommandPayload(c) == <<c.kind, c.minutes>>
StatusPayload(s) ==
  <<s.state, s.minutesRemaining, ToU8(s.lastRssiDbm), ToU8(s.lastSnrDb),
    s.lastWbusOpState, s.lastErrorCode, Lo(s.lastCmdSeq), Hi(s.lastCmdSeq),
    Lo(ToU16(s.temperatureC)), Hi(ToU16(s.temperatureC)),
    Lo(s.voltage_mV), Hi(s.voltage_mV), Lo(s.power), Hi(s.power)>>

\* the payload fields read back from the union according to the message type
PayloadFields(type, raw) ==
  IF type = MsgTypeCode.Command THEN [kind |-> raw[1], minutes |-> raw[2]]
  ELSE IF type = MsgTypeCode.Status THEN
    [state |-> raw[1], minutesRemaining |-> raw[2], lastRssiDbm |-> FromU8(raw[3]),
     lastSnrDb |-> FromU8(raw[4]), lastWbusOpState |-> raw[5], lastErrorCode |-> raw[6],
     lastCmdSeq |-> raw[7] + 256 * raw[8],
     temperatureC |-> FromU16(raw[9] + 256 * raw[10]),
     voltage_mV |-> raw[11] + 256 * raw[12], power |-> raw[13] + 256 * raw[14]]
  ELSE <<>>

\* the header fields of a packet
Header(p) == <<p.magic_version, p.type, p.src, p.dst, p.seq>>

\* struct PacketHeader as bytes
HeaderBytes(p) == <<p.magic_version, p.type, p.src, p.dst, Lo(p.seq), Hi(p.seq)>>

getPayloadSize(type) ==
  IF type = MsgTypeCode.Command THEN 2
  ELSE IF type = MsgTypeCode.Status THEN 14
  ELSE 0

getWirePacketSize(type) == sizeofPacketHeader + getPayloadSize(type) + sizeofCrc

calcCrc(p) ==
  crc16_ccitt(HeaderBytes(p) \o SubSeq(p.raw, 1, getPayloadSize(p.type)))

validate(p) ==
  IF p.magic_version # kMagicVersion THEN FALSE ELSE p.crc = calcCrc(p)

\* the AES-128-CTR key stream of mbedtls for the nonce (seq, src, dst): a fixed
\* byte sequence per nonce, different for different nonces
KeyStream(seq, src, dst) ==
  [i \in 1..sizeofUnion |-> ((seq * 31) + (src * 17) + (dst * 13) + (i * 7) + 87) % 256]

\* AES128CTR::encryptPayload: PAYLOAD_SIZE bytes XOR the key stream
encryptPayload(data, seq, src, dst) ==
  [i \in 1..sizeofUnion |-> Xor(data[i], KeyStream(seq, src, dst)[i])]

decryptPayload_none(data, seq, src, dst) == data

\* AES128CTR::decryptPayload
decryptPayload(data, seq, src, dst) == encryptPayload(data, seq, src, dst)

\* proto::encryptPacket and proto::decryptPacket work on the whole union
proto_encryptPacket(p) == [p EXCEPT !.raw = encryptPayload(p.raw, p.seq, p.src, p.dst)]
proto_decryptPacket(p) == [p EXCEPT !.raw = decryptPayload(p.raw, p.seq, p.src, p.dst)]

\* the bytes LoRaLink::send writes for pkt: header, the payload-sized part of the
\* encrypted union, CRC of both
sendBytes(pkt) ==
  LET e == proto_encryptPacket(pkt)
      crc == calcCrc(e)
  IN HeaderBytes(e) \o SubSeq(e.raw, 1, getPayloadSize(e.type)) \o <<Lo(crc), Hi(crc)>>

\* LoRaLink::recv on a frame of the FIFO, with out-parameter pkt: the returned
\* value and what pkt holds afterwards
recv(frame, pkt) ==
  LET packetSize == Len(frame)
      MIN_PACKET_SIZE == sizeofPacketHeader + sizeofCrc
      MAX_PACKET_SIZE == sizeofPacketHeader + 14 + sizeofCrc
      expectedPayloadBytes == packetSize - sizeofPacketHeader - sizeofCrc
      read == [magic_version |-> frame[1], type |-> frame[2], src |-> frame[3],
               dst |-> frame[4], seq |-> frame[5] + 256 * frame[6],
               raw |-> Union(SubSeq(frame, sizeofPacketHeader + 1,
                                    sizeofPacketHeader + expectedPayloadBytes)),
               crc |-> frame[packetSize - 1] + 256 * frame[packetSize]]
  IN IF packetSize <= 0 THEN [ret |-> FALSE, pkt |-> pkt]
     ELSE IF packetSize < MIN_PACKET_SIZE \/ packetSize > MAX_PACKET_SIZE
       THEN [ret |-> FALSE, pkt |-> pkt]
     ELSE IF ~validate(read) THEN [ret |-> FALSE, pkt |-> read]
     ELSE [ret |-> TRUE, pkt |-> proto_decryptPacket(read)]

\* what loop() of the receiver goes on with after recv(pkt) in running mode: the
\* normal build resets pkt when recv returned false, the DISABLE_SLEEP build does not
LoopPacket(disableSleep, r) ==
  IF disableSleep THEN r.pkt
  ELSE IF r.ret THEN r.pkt ELSE EmptyPacket

\* loop(): the packet is handled as a command
IsWireCmdForMe(p) == p.type = MsgTypeCode.Command /\ p.dst = LORA_NODE_RECEIVER

\* the well-formed packets handed to send
WireStatus(state, rssi, temp, seq) ==
  [state |-> state, minutesRemaining |-> 0, lastRssiDbm |-> rssi, lastSnrDb |-> 9,
   lastWbusOpState |-> 6, lastErrorCode |-> 0, lastCmdSeq |-> seq,
   temperatureC |-> temp, voltage_mV |-> 12150, power |-> 300]

WirePackets ==
  {WirePacket(kMagicVersion, MsgTypeCode.Command, LORA_NODE_SENDER, LORA_NODE_RECEIVER, seq,
              CommandPayload([kind |-> k[1], minutes |-> k[2]])) :
     seq \in {1, 300}, k \in {<<CommandKindCode.Stop, 0>>, <<CommandKindCode.Start, 30>>,
                              <<CommandKindCode.RunMinutes, 20>>}}
  \cup
  {WirePacket(kMagicVersion, MsgTypeCode.Status, LORA_NODE_RECEIVER, LORA_NODE_SENDER, seq,
              StatusPayload(WireStatus(s[1], s[2], s[3], s[4]))) :
     seq \in {2, 65535}, s \in {<<HeaterStateCode.Running, -33, -5, 300>>,
                                <<HeaterStateCode.Off, -120, -32768, 1>>}}
  \cup
  {WirePacket(kMagicVersion, MsgTypeCode.Ack, src, LORA_NODE_SENDER + LORA_NODE_RECEIVER - src, 7, <<>>) :
     src \in {LORA_NODE_SENDER, LORA_NODE_RECEIVER}}

\* what can happen to a frame between the two radios
TamperKinds == {"flipPayload", "flipCrc", "oldMagic", "extraByte", "dropByte"}

\* the magic byte of the previous protocol generation
kOldMagic == 51

Tamper(frame, how) ==
  LET n == Len(frame)
      body == SubSeq(frame, 1, n - 2)
      crcBytes == SubSeq(frame, n - 1, n)
      withCrc(b) == b \o <<Lo(crc16_ccitt(b)), Hi(crc16_ccitt(b))>>
  IN CASE how = "flipPayload" -> [frame EXCEPT ![7] = Xor(@, 1)]
       [] how = "flipCrc" -> [frame EXCEPT ![n] = Xor(@, 128)]
       [] how = "oldMagic" -> withCrc([body EXCEPT ![1] = kOldMagic])
       [] how = "extraByte" -> body \o <<0>> \o crcBytes
       [] how = "dropByte" -> SubSeq(body, 1, n - 3) \o crcBytes

\* LoRaLink::send(pkt): the frame reaches the FIFO of the other radio
WireSend(pkt) ==
  /\ wFrame = <<>>
  /\ wSent' = pkt /\ wFrame' = sendBytes(pkt) /\ wTamper' = "none" /\ wOp' = "send"
  /\ UNCHANGED <<otaVars, hExecuted, kaVars, cliVars, menuVars, tlvVars, wbusVars, DISABLE_SLEEP, wGot, wPkt, wRet, wLoopPkt, nodeVars, linkVars>>

\* the frame is damaged, or comes from another transmitter
WireTamper(how) ==
  /\ wFrame # <<>> /\ wTamper = "none"
  /\ wFrame' = Tamper(wFrame, how) /\ wTamper' = how /\ wOp' = "tamper"
  /\ UNCHANGED <<otaVars, hExecuted, kaVars, cliVars, menuVars, tlvVars, wbusVars, DISABLE_SLEEP, wSent, wGot, wPkt, wRet, wLoopPkt, nodeVars, linkVars>>

\* loop() of the receiver: proto::Packet pkt{}; loraLink.recv(pkt, ...); the command test
WireRecv ==
  /\ wFrame # <<>>
  /\ LET r == recv(wFrame, EmptyPacket)
     IN /\ wPkt' = r.pkt /\ wRet' = r.ret
        /\ wLoopPkt' = LoopPacket(DISABLE_SLEEP, r)
  /\ wGot' = wFrame /\ wFrame' = <<>> /\ wOp' = "recv"
  /\ UNCHANGED <<otaVars, hExecuted, kaVars, cliVars, menuVars, tlvVars, wbusVars, DISABLE_SLEEP, wSent, wTamper, nodeVars, linkVars>>

NextWire ==
  \/ \E pkt \in WirePackets : WireSend(pkt)
  \/ \E how \in TamperKinds : WireTamper(how)
  \/ WireRecv

\* the receiver firmware is built with or without DISABLE_SLEEP
InitAnyBuild == Init0 /\ trackNonce = FALSE /\ DISABLE_SLEEP \in BOOLEAN

SpecWire == InitAnyBuild /\ [][NextWire]_vars

(* ======================= W-BUS transport (WBusSimple) ======================= *)

\* makeHeader(src, dst) with WBUS_ADDR_CONTROLLER = 0xF and WBUS_ADDR_HEATER = 0x4
makeHeader(src, dst) == ((src % 16) * 16) + (dst % 16)
WBUS_ADDR_CONTROLLER == 15
WBUS_ADDR_HEATER == 4
wbusTxHeader == makeHeader(WBUS_ADDR_CONTROLLER, WBUS_ADDR_HEATER)
wbusRxHeader == makeHeader(WBUS_ADDR_HEATER, WBUS_ADDR_CONTROLLER)

\* sizeof(WBusPacket::payload)
sizeofPayload == 256

RECURSIVE XorRange(_, _, _)
\* XOR of bytes[lo..hi]
XorRange(bytes, lo, hi) ==
  IF lo > hi THEN 0
  ELSE IF lo = hi THEN bytes[lo]
  ELSE LET mid == (lo + hi) \div 2
       IN Xor(XorRange(bytes, lo, mid), XorRange(bytes, mid + 1, hi))

\* XOR of the first n bytes of a sequence
XorAll(bytes, n) == XorRange(bytes, 1, n)

\* WBusPacket::checksum: header, length and the payload without its last byte
checksum(p) ==
  IF p.payloadLen = 0 THEN Xor(p.header, p.length)
  ELSE Xor(Xor(p.header, p.length), XorAll(p.payload, p.payloadLen - 1))

\* the two checks of ReadLength on the uint8_t length
LengthAccepted(length) ==
  ~(length < 2 \/ length > WBUS_MAX_LEN) /\ ~(length > sizeofPayload)

\* ReadPayload: expected == got
ChecksumMatches(p) == checksum(p) = p.payload[p.payloadLen]

StateAfterFrame_stays(state) == state

\* ReadPayload after the last byte of the frame: rxState = RxState::FindHeader
StateAfterFrame(state) == "FindHeader"

\* the frame sendCommand writes: header, length, cmd, data, checksum
TxFrame(cmd, data) ==
  LET body == <<wbusTxHeader, Len(data) + 2, cmd>> \o data
  IN body \o <<XorAll(body, Len(body))>>

\* a frame as the heater sends it: header, length, payload, checksum over all of them
RxFrame(header, payload) ==
  LET body == <<header, Len(payload) + 1>> \o payload
  IN body \o <<XorAll(body, Len(body))>>

Zeros(n) == [i \in 1..n |-> 0]

\* what the line delivers: a status response, the same with a wrong checksum, frames
\* with length 1 and 0, the echo of a stop command, the longest frames, a stray byte
FedFrames ==
  { RxFrame(wbusRxHeader, <<208, 7, 4>>),
    [RxFrame(wbusRxHeader, <<208, 7, 6>>) EXCEPT ![6] = Xor(@, 1)],
    RxFrame(wbusRxHeader, <<>>),
    <<wbusRxHeader, 0>>,
    TxFrame(16, <<>>),
    RxFrame(wbusRxHeader, Zeros(253)),
    RxFrame(wbusRxHeader, Zeros(254)),
    <<0>> }

\* the commands handed to sendCommand: stop, start for 30 minutes, operating state
SendChoices == {<<16, <<>> >>, <<33, <<30>> >>, <<80, <<7>> >>}

\* WBusSimple::begin() in setup(), after power-on or a wake-up from deep sleep
WbusBegin ==
  /\ wbusDidBreak' = FALSE /\ rxState' = "FindHeader" /\ rxIndex' = 0
  /\ havePacket' = FALSE
  /\ rxInProgress' = EmptyWBusPacket /\ packetQueue' = EmptyWBusPacket
  /\ portIn' = <<>> /\ portOut' = <<>> /\ portOpen' = TRUE /\ hRx' = NoRx
  /\ hBreaks' = 0 /\ hSends' = 0
  /\ UNCHANGED <<otaVars, hExecuted, kaVars, cliVars, menuVars, tlvVars, nodeVars, linkVars, wireVars, tlvVars>>

DidBreakAfterSend_forgets(d) == FALSE

\* sendCommand: didBreak = true after the break pulse
DidBreakAfterSend(d) == TRUE

\* WBusSimple::sendCommand(cmd, data, dataLen)
WbusSendCommand(cmd, data) ==
  /\ portOpen /\ hSends < MaxSends
  /\ LET break == WBUS_SEND_BREAK # 0 /\ ~wbusDidBreak
     IN /\ wbusDidBreak' = IF break THEN DidBreakAfterSend(wbusDidBreak) ELSE wbusDidBreak
        /\ hBreaks' = IF break THEN hBreaks + 1 ELSE hBreaks
  /\ portOut' = TxFrame(cmd, data)
  /\ hSends' = hSends + 1
  /\ hRx' = NoRx
  /\ UNCHANGED <<otaVars, hExecuted, kaVars, cliVars, menuVars, tlvVars, rxState, rxInProgress, rxIndex, havePacket, packetQueue, portIn, portOpen,
                 nodeVars, linkVars, wireVars, tlvVars>>

\* the line delivers the bytes of a frame to the UART
WbusFeed(frame) ==
  /\ portOpen /\ portIn = <<>>
  /\ portIn' = frame
  /\ hRx' = NoRx
  /\ UNCHANGED <<otaVars, hExecuted, kaVars, cliVars, menuVars, tlvVars, wbusDidBreak, rxState, rxInProgress, rxIndex, havePacket, packetQueue,
                 portOut, portOpen, hBreaks, hSends, nodeVars, linkVars, wireVars, tlvVars>>

\* WBusSimple::poll(): one iteration of while (port.available() > 0)
WbusPollByte ==
  /\ portIn # <<>>
  /\ LET b == Head(portIn)
     IN /\ portIn' = Tail(portIn)
        /\ CASE rxState = "FindHeader" ->
                  /\ IF b = wbusTxHeader \/ b = wbusRxHeader
                       THEN /\ rxInProgress' = [EmptyWBusPacket EXCEPT !.header = b]
                            /\ rxState' = "ReadLength"
                       ELSE UNCHANGED <<rxInProgress, rxState>>
                  /\ hRx' = [NoRx EXCEPT !.did = "header", !.byte = b]
                  /\ UNCHANGED <<rxIndex, havePacket, packetQueue>>
             [] rxState = "ReadLength" ->
                  /\ rxIndex' = 0
                  /\ IF LengthAccepted(b)
                       THEN /\ rxInProgress' = [rxInProgress EXCEPT !.length = b, !.payloadLen = b,
                                                                    !.payload = <<>>]
                            /\ rxState' = "ReadPayload"
                            /\ hRx' = [NoRx EXCEPT !.did = "length", !.byte = b]
                       ELSE /\ rxInProgress' = [rxInProgress EXCEPT !.length = b, !.payloadLen = 0,
                                                                    !.payload = <<>>]
                            /\ rxState' = "FindHeader"
                            /\ hRx' = [NoRx EXCEPT !.did = "lengthRejected", !.byte = b]
                  /\ UNCHANGED <<havePacket, packetQueue>>
             [] rxState = "ReadPayload" ->
                  LET stored == rxIndex < rxInProgress.payloadLen
                      p == IF stored THEN [rxInProgress EXCEPT !.payload = Append(@, b)]
                           ELSE rxInProgress
                      idx == IF stored THEN rxIndex + 1 ELSE rxIndex
                      raw == <<rxInProgress.header, rxInProgress.length>> \o p.payload
                  IN /\ rxInProgress' = p
                     /\ IF idx >= p.payloadLen
                          THEN /\ IF ChecksumMatches(p)
                                    THEN packetQueue' = p /\ havePacket' = TRUE
                                    ELSE UNCHANGED <<packetQueue, havePacket>>
                               /\ rxState' = StateAfterFrame(rxState) /\ rxIndex' = 0
                               /\ hRx' = [did |-> "frameEnd", byte |-> b,
                                          sumOk |-> XorAll(raw, Len(raw) - 1) = b,
                                          queued |-> ChecksumMatches(p),
                                          length |-> rxInProgress.length]
                          ELSE /\ rxIndex' = idx
                               /\ hRx' = [NoRx EXCEPT !.did = "payload", !.byte = b]
                               /\ UNCHANGED <<rxState, packetQueue, havePacket>>
  /\ UNCHANGED <<otaVars, hExecuted, kaVars, cliVars, menuVars, tlvVars, wbusDidBreak, portOut, portOpen, hBreaks, hSends, nodeVars, linkVars, wireVars, tlvVars>>

\* WBusSimple::popPacket
WbusPopPacket ==
  /\ havePacket
  /\ havePacket' = FALSE
  /\ hRx' = NoRx
  /\ UNCHANGED <<otaVars, hExecuted, kaVars, cliVars, menuVars, tlvVars, wbusDidBreak, rxState, rxInProgress, rxIndex, packetQueue, portIn, portOut,
                 portOpen, hBreaks, hSends, nodeVars, linkVars, wireVars, tlvVars>>

NextWbus ==
  \/ WbusBegin
  \/ \E c \in SendChoices : WbusSendCommand(c[1], c[2])
  \/ \E frame \in FedFrames : WbusFeed(frame)
  \/ WbusPollByte
  \/ WbusPopPacket

SpecWbus == Init /\ [][NextWbus]_vars

(* ======================= Multi-status TLV ======================= *)

\* the IDs of tryParseStatusTlv by the size of their value: one byte, the
\* temperature, two bytes, and one or two bytes (parseMaybeU16)
KnownIds1 == {1, 3, 5, 6, 7, 8, 10, 16, 31, 36, 39, 42, 44, 45, 50}
IdTemperature == 12
IdVoltage == 14
IdPower == 17
KnownIds2 == {14, 15, 17, 19, 30, 41, 52, 61, 82}
KnownIdsMaybe == {87, 95, 120, 137}

isKnownId(candidate) ==
  candidate \in KnownIds1 \cup {IdTemperature} \cup KnownIds2 \cup KnownIdsMaybe

be16(hi, lo) == (hi * 256) + lo

\* payload[i] of a C array kept as a sequence
At(payload, i) == payload[i + 1]

\* WBusStatus s; the fields tryPollMultiStatusOnce copies
NewWBusStatus == [valid |-> FALSE, temperatureC |-> INT16_MIN, voltage_mV |-> 0, power |-> 0]

\* parseMaybeU16 at pos: the number of value bytes it takes, 0 when it fails
parseMaybeU16(payload, pos, end) ==
  IF pos + 2 <= end /\ (pos + 2 >= end \/ isKnownId(At(payload, pos + 2))) THEN 2
  ELSE IF pos + 1 <= end /\ (pos + 1 >= end \/ isKnownId(At(payload, pos + 1))) THEN 1
  ELSE 0

\* the default case of the switch: return false
UnknownId(payload, pos, end, s) == [ok |-> FALSE, s |-> s]

RECURSIVE ParseItems(_, _, _, _)
\* the while (pos < end) loop of tryParseStatusTlv
ParseItems(payload, pos, end, s) ==
  IF ~(pos < end) THEN [ok |-> TRUE, s |-> [s EXCEPT !.valid = TRUE]]
  ELSE LET id == At(payload, pos)
           p == pos + 1
           need(n) == p + n <= end
           fail == [ok |-> FALSE, s |-> s]
       IN IF id \in KnownIds1
            THEN IF ~need(1) THEN fail ELSE ParseItems(payload, p + 1, end, s)
          ELSE IF id = IdTemperature
            THEN IF ~need(1) THEN fail
                 ELSE ParseItems(payload, p + 1, end,
                                 [s EXCEPT !.temperatureC = At(payload, p) - 50])
          ELSE IF id \in KnownIds2
            THEN IF ~need(2) THEN fail
                 ELSE LET v == be16(At(payload, p), At(payload, p + 1))
                      IN ParseItems(payload, p + 2, end,
                                    IF id = IdVoltage THEN [s EXCEPT !.voltage_mV = v]
                                    ELSE IF id = IdPower THEN [s EXCEPT !.power = v]
                                    ELSE s)
          ELSE IF id \in KnownIdsMaybe
            THEN LET n == parseMaybeU16(payload, p, end)
                 IN IF n = 0 THEN fail ELSE ParseItems(payload, p + n, end, s)
          ELSE UnknownId(payload, pos, end, s)

\* WBusSimple::tryParseStatusTlv on the payload of a packet (checksum included)
tryParseStatusTlv(payload) ==
  IF Len(payload) < 4 THEN [ok |-> FALSE, s |-> NewWBusStatus]
  ELSE IF At(payload, 0) % 128 # 80 THEN [ok |-> FALSE, s |-> NewWBusStatus]
  ELSE IF At(payload, 1) # 48 THEN [ok |-> FALSE, s |-> NewWBusStatus]
  ELSE ParseItems(payload, 2, Len(payload) - 1, NewWBusStatus)

RECURSIVE Flatten(_)
\* the bytes of a list of items <<id, value bytes>>
Flatten(items) ==
  IF items = <<>> THEN <<>> ELSE <<Head(items)[1]>> \o Head(items)[2] \o Flatten(Tail(items))

\* the payload of the heater's answer to 0x50 0x30: 0xD0 0x30, the items, the checksum
TlvPayload(items) ==
  LET body == <<208, 48>> \o Flatten(items)
  IN body \o <<XorAll(<<wbusRxHeader, Len(body) + 1>> \o body, Len(body) + 2)>>

\* tryPollMultiStatusOnce: the filter on the response and the parse; items = <<>>
\* stands for no response within 250 ms
tryPollMultiStatusOnce(items, outStatus) ==
  LET payload == TlvPayload(items)
      r == tryParseStatusTlv(payload)
  IN IF items = <<>> THEN [ok |-> FALSE, status |-> outStatus]
     ELSE IF Len(payload) < 4 \/ At(payload, 0) % 128 # 80 \/ At(payload, 0) < 128
             \/ At(payload, 1) # 48
       THEN [ok |-> FALSE, status |-> outStatus]
     ELSE IF r.ok /\ r.s.valid
       THEN [ok |-> TRUE,
             status |-> [outStatus EXCEPT !.temperatureC = r.s.temperatureC,
                                          !.voltage_mV = r.s.voltage_mV,
                                          !.power = r.s.power]]
     ELSE [ok |-> FALSE, status |-> outStatus]

\* what the heater can answer to the multi-status request
TlvResponses ==
  { <<>>,
    << <<12, <<70>> >>, <<14, <<47, 118>> >>, <<17, <<1, 44>> >> >>,
    << <<7, <<4>> >>, <<12, <<60>> >> >>,
    << <<12, <<70>> >>, <<96, <<1>> >> >>,
    << <<87, <<1, 14>> >>, <<96, <<9>> >> >>,
    << <<87, <<1, 2>> >>, <<12, <<80>> >> >>,
    << <<14, <<48>> >> >>,
    << <<17, <<0, 200>> >> >>,
    << <<12, <<40>> >>, <<120, <<3>> >> >>,
    << <<95, <<2, 12>> >>, <<200, <<75, 0>> >> >> }

\* what the heater can answer to the simple page 0x05: nothing, or payload
\* D0 05 temperature voltage-hi voltage-lo checksum
Simple05Responses == {<<>>, <<208, 5, 65, 46, 224, 0>>, <<208, 5, 30, 50, 200, 0>>}

\* the simple status pages of the fallback, in the order they are requested
SimplePages == <<5, 15, 2, 3, 6>>

\* setup(): the probe leaves gTlvSupportCache at 2 (supported) or 1
TlvSetup(items) ==
  /\ tlvSupport = 0
  /\ tlvSupport' = IF tryPollMultiStatusOnce(items, tlvStatus).ok THEN 2 ELSE 1
  /\ tlvReqs' = << <<80, 48>> >> /\ tlvItems' = items /\ tlvGot' = FALSE
  /\ tlvOp' = "setup"
  /\ UNCHANGED <<otaVars, hExecuted, kaVars, cliVars, menuVars, tlvStatus, nodeVars, linkVars, wireVars, wbusVars>>

\* the operating states the heater can report to readOperatingState (0: no answer)
OpStateAnswers == {0, OpStateOff, OpStateBurning}

\* loop(): a poll: the operating state, the multi-status request and its fallback
\* to the simple pages
TlvPoll(op, items, page05) ==
  /\ tlvSupport # 0
  /\ (tlvSupport # 2) => items = <<>>
  /\ LET st == IF op # 0 THEN [tlvStatus EXCEPT !.state = mapOpState(op)] ELSE tlvStatus
         r == IF tlvSupport = 2 THEN tryPollMultiStatusOnce(items, st)
              ELSE [ok |-> FALSE, status |-> st]
         requested == IF tlvSupport = 2 THEN << <<80, 7>>, <<80, 48>> >> ELSE << <<80, 7>> >>
         fallback == [i \in 1..Len(SimplePages) |-> <<80, SimplePages[i]>>]
     IN /\ tlvGot' = r.ok
        /\ tlvReqs' = IF r.ok THEN requested ELSE requested \o fallback
        /\ tlvStatus' =
             IF r.ok THEN r.status
             ELSE IF page05 # <<>> /\ Len(page05) >= 5
               THEN [r.status EXCEPT !.temperatureC = At(page05, 2) - 50,
                                     !.voltage_mV = be16(At(page05, 3), At(page05, 4))]
             ELSE r.status
  /\ tlvItems' = items /\ tlvOp' = "poll"
  /\ UNCHANGED <<otaVars, hExecuted, kaVars, cliVars, menuVars, tlvSupport, nodeVars, linkVars, wireVars, wbusVars>>

\* deep sleep and wake-up, or power-on: setup() runs again
TlvRestart ==
  /\ tlvOp \in {"setup", "poll"}
  /\ tlvSupport' = 0 /\ tlvOp' = "restart"
  /\ tlvStatus' = [state |-> "Unknown", temperatureC |-> INT16_MIN, voltage_mV |-> 0, power |-> 0]
  /\ tlvReqs' = <<>> /\ tlvItems' = <<>> /\ tlvGot' = FALSE
  /\ UNCHANGED <<otaVars, hExecuted, kaVars, cliVars, menuVars, nodeVars, linkVars, wireVars, wbusVars>>

NextTlv ==
  \/ \E items \in TlvResponses : TlvSetup(items)
  \/ \E op \in OpStateAnswers, items \in TlvResponses, page05 \in Simple05Responses :
       TlvPoll(op, items, page05)
  \/ TlvRestart

SpecTlv == Init /\ [][NextTlv]_vars

(* ======================= Claims ======================= *)

\* no frame of the sequence is a W-BUS start (0x21) or stop (0x10)
NoStartStop(frames) == \A i \in 1..Len(frames) : frames[i][1] \notin {16, 33}

\* C1: handling a radio Command addressed to the receiver whose seq equals the
\* last processed command seq writes no W-BUS start (0x21) or stop (0x10) frame.
C1_DuplicateNotReExecuted ==
  (rHandled.cmd /\ rHandled.dup) => NoStartStop(wbusOut)

\* a retransmitted Stop or Start was handled as a duplicate
C1_Witness ==
  /\ rHandled.cmd /\ rHandled.dup /\ rHandled.kind \in {"Stop", "Start"}
  /\ wbusOut = <<>> /\ rPkt.seq = 1

C3_OkOnlyOnMatchingStatus ==
  /\ sResult = "Ok" =>
       (IsStatusFromReceiver(sGot) /\ sGot.status.lastCmdSeq = PrevSeq(sSeq))
  /\ (IsStatusFromReceiver(sGot) /\ sGot.status.lastCmdSeq # PrevSeq(sSeq)) =>
       /\ sResult # "Ok"
       /\ sPc = "await" =>
            (gAwaitingCmdSeq = PrevSeq(sSeq) /\ gLastStatus = sGot.status)

\* the second submit took a Status echoing the first command, then returned Ok
C3_Witness ==
  /\ sPc = "loop" /\ sResult = "Ok" /\ sSeq = 3
  /\ sGot.status.lastCmdSeq = 2 /\ gLastStatus.lastCmdSeq = 2

\* C4: a pending submit never waits past the ACK deadline, a submit that returned
\* TimedOut returned exactly when the deadline had elapsed, and after any return
\* no command is outstanding on the sender.
C4_TimedOutAtDeadline ==
  /\ sPc = "await" => (sElapsed <= AckTicks /\ gAwaitingCmdSeq = sCmd.seq)
  /\ sResult = "TimedOut" => sElapsed = AckTicks
  /\ sPc = "loop" => gAwaitingCmdSeq = 0

\* submit returned TimedOut at the deadline and left nothing outstanding
C4_Witness ==
  /\ sPc = "loop" /\ sResult = "TimedOut"
  /\ sElapsed = AckTicks /\ gAwaitingCmdSeq = 0

\* C5: after a deep-sleep wake, when the first packet received is a Command whose
\* seq equals the seq of the last command handled before the sleep, it is handled
\* as a duplicate and no W-BUS frame is written for it.
C5_DedupSurvivesDeepSleep ==
  (rHandled.cmd /\ rHandled.afterWake) => (rHandled.dup /\ wbusOut = <<>>)

\* a retransmitted Stop or Start was the first packet after a wake
C5_Witness ==
  /\ rHandled.cmd /\ rHandled.afterWake /\ rHandled.dup
  /\ rHandled.kind \in {"Stop", "Start"} /\ wbusOut = <<>>

\* C6: the receiver polls W-BUS only while the heater is or was Running since the
\* boot (Running, Extended Wake) or for a QueryStatus; never while Idle.
C6_PollOnlyWhenRunningOrQuery ==
  rPc = "pollbody" =>
    (hWasRunning \/ (rPkt.type = "Command" /\ rPkt.kind = "QueryStatus"))

\* C7: handling a new QueryStatus writes no W-BUS start (0x21) or stop (0x10)
\* frame and does not put the heater state into Running.
C7_QueryStatusWritesNoCommand ==
  (rHandled.cmd /\ ~rHandled.dup /\ rHandled.kind = "QueryStatus") =>
    (NoStartStop(wbusOut) /\ gStatus.state # "Running")

\* a new QueryStatus was handled while the heater state was Running
C7_Witness ==
  /\ rHandled.cmd /\ ~rHandled.dup /\ rHandled.kind = "QueryStatus"
  /\ wbusOut = <<>> /\ heaterRunning /\ gStatus.state = "Error"

\* C8: when the receiver goes back to sleep after a QueryStatus taken from the
\* idle listen window, exactly one W-BUS poll was made since that QueryStatus.
C8_QueryStatusPollsOnce ==
  (rPc = "sleep" /\ hQuery) => hPolls = 1

\* C9: with no frame lost and the receiver in its idle duty cycle when submit
\* began, submit does not return TimedOut.
C9_IdleCommandAcked ==
  ~(sResult = "TimedOut" /\ hIdleAtSubmit /\ hLossless)

\* C10: no two distinct messages are encrypted under the same nonce (seq, src, dst).
C10_NonceNeverReused ==
  \A a, b \in encLog : a.nonce = b.nonce => a.plain = b.plain

\* C11: when the W-BUS dispatch of a new (non-duplicate) radio command fails, the
\* receiver's heater state is Error and the Status sent as the acknowledgement of
\* that command carries state Error.
C11_FailedDispatchIsError ==
  (rHandled.cmd /\ ~rHandled.dup /\ ~rHandled.ok) =>
    /\ gStatus.state = "Error"
    /\ Len(radioOut) = 1
    /\ radioOut[1].type = "Status"
    /\ radioOut[1].status.state = "Error"
    /\ radioOut[1].status.lastCmdSeq = rPkt.seq

\* a new command was handled while Running, its dispatch failed and Error was acknowledged
C11_Witness ==
  /\ rHandled.cmd /\ ~rHandled.dup /\ ~rHandled.ok /\ rHandled.prev = "Running"
  /\ gStatus.state = "Error" /\ radioOut[1].status.state = "Error"

\* C12: Error is not sticky: a new command handled while the state is Error whose
\* dispatch succeeds sets the state to Off (Stop) or Running (Start, RunMinutes),
\* and the Status acknowledging it carries that state, not Error.
C12_ErrorNotSticky ==
  (rHandled.cmd /\ ~rHandled.dup /\ rHandled.ok /\ rHandled.prev = "Error") =>
    /\ gStatus.state = (IF rHandled.kind = "Stop" THEN "Off" ELSE "Running")
    /\ Len(radioOut) = 1
    /\ radioOut[1].status.state = gStatus.state

\* a Start dispatched successfully while the state was Error
C12_Witness ==
  /\ rHandled.cmd /\ ~rHandled.dup /\ rHandled.ok /\ rHandled.prev = "Error"
  /\ rHandled.kind = "Start" /\ gStatus.state = "Running"
  /\ radioOut[1].status.state = "Running"

\* C13: a W-BUS command dispatch (Stop, Start, RunMinutes) is reported successful
\* only when the heater acknowledged it, and reported failed only after the frame
\* was written kCommandRetries times without an acknowledgement.
C13_DispatchRetriesWithAck ==
  (rHandled.cmd /\ ~rHandled.dup /\ rHandled.kind \in {"Stop", "Start", "RunMinutes"}) =>
    /\ rHandled.ok => rHandled.ack
    /\ ~rHandled.ok => Len(wbusOut) = kCommandRetries
    /\ Len(wbusOut) \in 1..kCommandRetries

\* the minutes a command runs the heater for, from the packet and the preset before it
MinutesFor(h) == IF h.minutes # 0 THEN h.minutes ELSE h.lastRun

\* C14: a new Stop writes the W-BUS frame 0x10 with no data; a new Start or
\* RunMinutes writes 0x21 with the effective minutes as its single data byte; when
\* the dispatch reports success the state becomes Off for Stop and Running for
\* Start and RunMinutes.
C14_CommandFrames ==
  (rHandled.cmd /\ ~rHandled.dup) =>
    /\ rHandled.kind = "Stop" =>
          /\ wbusOut = << <<16>> >>
          /\ rHandled.ok => gStatus.state = "Off"
    /\ rHandled.kind \in {"Start", "RunMinutes"} =>
          /\ wbusOut = << <<33, MinutesFor(rHandled)>> >>
          /\ rHandled.ok => gStatus.state = "Running"

\* a RunMinutes 20 was written as 0x21 0x14 and the state became Running
C14_Witness ==
  /\ rHandled.cmd /\ ~rHandled.dup /\ rHandled.kind = "RunMinutes"
  /\ wbusOut = << <<33, 20>> >> /\ rHandled.ok /\ gStatus.state = "Running"

DispatchOf(h) ==
  [frames |-> CASE h.kind = "Stop" -> << <<16>> >>
                [] h.kind \in {"Start", "RunMinutes"} -> << <<33, MinutesFor(h)>> >>
                [] OTHER -> << >>,
   state |-> IF ~h.ok THEN "Error" ELSE IF h.kind = "Stop" THEN "Off" ELSE "Running",
   preset |-> IF h.kind \in {"Start", "RunMinutes"} THEN MinutesFor(h) ELSE h.lastRun]

C17_ExtendedWakeAfterOff ==
  (rPc = "sleep" /\ hOffAge >= 0) => hOffAge >= ExtendedWakeTicks

\* the frames of the sequence that request the TLV multi-status snapshot (0x50 0x30)
TlvRequests(frames) == {i \in 1..Len(frames) : frames[i] = <<80, 48>>}

\* C18: TLV support is probed at most once since the cold boot, only while the cache
\* is unknown; the result stays in the cache across deep sleeps; while the cache says
\* 'no', no step but the probe itself writes 0x50 0x30, and a poll reads the simple
\* pages.
C18_TlvProbedOnce ==
  /\ hTlv.probes <= 1
  /\ gTlvSupportCache = hTlv.result
  /\ rPc = "probe" => hTlv.probes = 0
  /\ (gTlvSupportCache = 1 /\ ~rHandled.probe) => TlvRequests(wbusOut) = {}
  /\ (gTlvSupportCache = 1 /\ wbusOut # <<>> /\ wbusOut[1] = <<80, 7>>) =>
        wbusOut = << <<80, 7>>, <<80, 5>>, <<80, 15>>, <<80, 2>>, <<80, 3>>, <<80, 6>> >>

\* after a probe that said 'no' and a deep sleep, a poll read the simple pages only
C18_Witness ==
  /\ hTlv = [probes |-> 1, result |-> 1, slept |-> TRUE]
  /\ gTlvSupportCache = 1
  /\ wbusOut = << <<80, 7>>, <<80, 5>>, <<80, 15>>, <<80, 2>>, <<80, 3>>, <<80, 6>> >>

\* C20: when LoRaLink::send has returned true, the radio is in receive mode.
C20_ReceiveModeAfterSend ==
  (lOp = "send" /\ lResult) => lMode = "rx"

\* a second packet was sent successfully and the radio listens again
C20_Witness ==
  /\ lOp = "send" /\ lResult /\ lMode = "rx" /\ Len(lAir) = 2

\* C36: whenever LoRaLink::send has returned, with true or with false, the radio is
\* in receive mode.
C36_ReceiveModeOnEveryReturn ==
  lOp = "send" => lMode = "rx"

\* C19: a step that writes a W-BUS request finds no earlier request still open,
\* that is, written without its response having been read or waited for.
C19_WBusRequestsInOrder ==
  wbusOut # <<>> => rHandled.open = <<>>

\* the frame has the wire size of its message type
RightSized(frame) == Len(frame) = getWirePacketSize(frame[2])

\* the received CRC equals the CRC over the received header and ciphertext payload,
\* and the magic byte is the current one
FrameValid(frame) ==
  LET n == Len(frame)
  IN /\ frame[1] = kMagicVersion
     /\ frame[n - 1] + 256 * frame[n] = crc16_ccitt(SubSeq(frame, 1, n - 2))

\* C21: after recv was called on a frame of the wire size of its type, recv has
\* returned true only if the frame's CRC and magic byte are valid, and for every
\* other frame recv returned false and the receiver loop goes on with an empty
\* packet, so that nothing is handled.
C21_InvalidFrameDiscarded ==
  (wOp = "recv" /\ RightSized(wGot)) =>
    /\ wRet => FrameValid(wGot)
    /\ ~FrameValid(wGot) => (~wRet /\ wLoopPkt = EmptyPacket)

\* the wire sizes of Ack, Command and Status frames
ValidWireSizes == {8, 10} \cup (17..22)

\* C22: a frame on which recv returned true has a total size in {8, 10, 17..22}
\* that equals header + payload_size(type) + 2 for its type.
C22_OnlyRightSizedAccepted ==
  (wOp = "recv" /\ wRet) =>
    /\ Len(wGot) \in ValidWireSizes
    /\ Len(wGot) = sizeofPacketHeader + getPayloadSize(wPkt.type) + sizeofCrc

\* C23: when recv is called on the bytes send wrote for a well-formed packet p, it
\* returns true with a packet equal to p in its header and in the payload fields of
\* its kind.
C23_SendRecvRoundTrip ==
  (wOp = "recv" /\ wTamper = "none") =>
    /\ wRet
    /\ Header(wPkt) = Header(wSent)
    /\ PayloadFields(wPkt.type, wPkt.raw) = PayloadFields(wSent.type, wSent.raw)

\* a Status with negative fields and the largest seq came through
C23_Witness ==
  /\ wOp = "recv" /\ wTamper = "none" /\ wRet
  /\ wPkt.type = MsgTypeCode.Status /\ wPkt.seq = 65535
  /\ PayloadFields(wPkt.type, wPkt.raw).temperatureC = -32768
  /\ PayloadFields(wPkt.type, wPkt.raw).lastRssiDbm = -120
  /\ PayloadFields(wPkt.type, wPkt.raw).lastCmdSeq = 1
  /\ wGot # HeaderBytes(wSent) \o SubSeq(wSent.raw, 1, 14) \o SubSeq(wGot, 21, 22)

\* C24: after the byte that completes a frame, with matching checksum or not, and
\* after a rejected length byte, the RX state machine is in FindHeader; when all
\* bytes the line delivered are consumed it is not in ReadLength or ReadPayload.
C24_FindHeaderAfterFrame ==
  /\ hRx.did \in {"frameEnd", "lengthRejected"} => (rxState = "FindHeader" /\ rxIndex = 0)
  /\ (portOpen /\ portIn = <<>>) => rxState = "FindHeader"

\* a frame with a wrong checksum was read to its last byte
C24_Witness ==
  /\ hRx.did = "frameEnd" /\ ~hRx.sumOk /\ ~hRx.queued /\ hRx.length = 4
  /\ rxState = "FindHeader" /\ portIn = <<>>

\* C25: a frame is placed in the receive queue only if its length byte is between
\* 2 and 254 and its last byte is the XOR of header, length and the payload bytes
\* before it.
C25_OnlyValidFramesQueued ==
  hRx.queued => (2 <= hRx.length /\ hRx.length <= 254 /\ hRx.sumOk)

\* C26: since begin() there was at most one break pulse sequence, none before the
\* first sendCommand and exactly one once a command has been sent.
C26_BreakOncePerBegin ==
  /\ hBreaks <= 1
  /\ hSends = 0 => hBreaks = 0
  /\ hSends > 0 => (hBreaks = 1 /\ wbusDidBreak)

\* two or more commands were sent after one break pulse
C26_Witness ==
  hSends >= 2 /\ hBreaks = 1 /\ portOut = TxFrame(80, <<7>>)

\* the response holds an item whose ID tryParseStatusTlv does not know
HasUnknownId(items) == \E i \in 1..Len(items) : ~isKnownId(items[i][1])

\* C27: a poll whose multi-status response holds an item with an unknown ID does
\* not decode it (gotTlv is false) and requests the simple status pages.
C27_UnknownIdNotDecoded ==
  (tlvOp = "poll" /\ HasUnknownId(tlvItems)) =>
    (~tlvGot /\ Len(tlvReqs) = 2 + Len(SimplePages))

(* ---------------- The button menu: MenuHandler and its host loop ---------------- *)

\* MenuHandler: the constants for button handling, in milliseconds
DEBOUNCE_MS == 20
LONG_PRESS_MS == 800
MENU_TIMEOUT_MS == 10000

\* the difference of two uint32_t timestamps of which b is the earlier one: the
\* subtraction modulo 2^32 is the elapsed time while less than 2^32 ms have passed
U32Diff(a, b) == a - b

\* show(): the menu opens on its first item
show(m, now) ==
  [m EXCEPT !.currentState = "Visible", !.menuShowTimeMs = now, !.selectedItem = 0]

\* hide()
hide(m) == [m EXCEPT !.currentState = "Hidden", !.menuShowTimeMs = 0]

\* a menu that never times out
isTimedOut_never(m, now) == FALSE

\* isTimedOut()
isTimedOut(m, now) ==
  IF m.currentState # "Visible" \/ m.menuShowTimeMs = 0 THEN FALSE
  ELSE U32Diff(now, m.menuShowTimeMs) > MENU_TIMEOUT_MS

\* a short press that steps past the last item instead of wrapping to the first
NextItem_nowrap(item) == item + 1

\* update(): the item a short press moves to
NextItem(item) == (item + 1) % MenuItemCount

\* update(): a change of the button level is taken once DEBOUNCE_MS have passed
\* since the last change that was taken
EdgeTaken(m, now, buttonPressed) ==
  buttonPressed # m.buttonWasPressed /\ U32Diff(now, m.lastButtonMs) >= DEBOUNCE_MS

\* update(): the button was just pressed
OnPress(m, now) ==
  LET p == [m EXCEPT !.buttonPressStartMs = now]
  IN  IF p.currentState = "Hidden" THEN show(p, now) ELSE p

\* update(): the button was just released
OnRelease(m, now) ==
  LET pressDuration == U32Diff(now, m.buttonPressStartMs)
  IN  IF m.currentState = "Visible"
      THEN IF pressDuration >= LONG_PRESS_MS
           THEN hide([m EXCEPT !.itemActivated = TRUE])
           ELSE [m EXCEPT !.selectedItem = NextItem(@), !.menuShowTimeMs = now]
      ELSE m

\* update(): debounce, press or release, then the timeout of the menu
update(m, now, buttonPressed) ==
  LET m1 == IF EdgeTaken(m, now, buttonPressed)
            THEN LET d == [m EXCEPT !.buttonWasPressed = buttonPressed, !.lastButtonMs = now]
                 IN  IF buttonPressed THEN OnPress(d, now) ELSE OnRelease(d, now)
            ELSE m
  IN  IF m1.currentState = "Visible" /\ isTimedOut(m1, now) THEN hide(m1) ELSE m1

\* an isItemActivated that leaves the flag set
FlagAfterReport_keeps(flag) == flag

\* isItemActivated(): the flag after an activation was reported
FlagAfterReport(flag) == FALSE

\* isItemActivated(outItem): the item is the selected one, read when the host asks
isItemActivated(m) ==
  IF m.itemActivated
  THEN [ret |-> TRUE, outItem |-> m.selectedItem,
        menu |-> [m EXCEPT !.itemActivated = FlagAfterReport(@)]]
  ELSE [ret |-> FALSE, outItem |-> -1, menu |-> m]

\* what update() did with the button in this iteration
DidOf(m, now, buttonPressed) ==
  IF ~EdgeTaken(m, now, buttonPressed) THEN "none"
  ELSE IF buttonPressed THEN "press"
  ELSE IF m.currentState # "Visible" THEN "release"
  ELSE IF U32Diff(now, m.buttonPressStartMs) >= LONG_PRESS_MS THEN "long" ELSE "short"

\* the time setup() takes before menu.begin()
BootMs == 100

\* the times between two calls of menu.update(): within the debounce interval, within
\* the long-press threshold, the long-press threshold, and past the timeout of the menu
BounceMs == DEBOUNCE_MS \div 2
LoopTimes == {BounceMs, LONG_PRESS_MS \div 2, LONG_PRESS_MS, MENU_TIMEOUT_MS + 1}

\* the button bounces right after a change of its level was taken, or after begin()
BounceNow(dt) == dt < DEBOUNCE_MS => mMillis = menu.lastButtonMs

\* setup(): menu.begin(MENU_BUTTON_PIN)
MenuBegin ==
  /\ mPhase = "setup"
  /\ mMillis' = mMillis + BootMs
  /\ menu' = [menu EXCEPT !.lastButtonMs = mMillis + BootMs]
  /\ mPhase' = "loop"
  /\ UNCHANGED <<otaVars, hExecuted, kaVars, cliVars, mEv, nodeVars, linkVars, wireVars, wbusVars, tlvVars>>

\* loop(): menu.update(), then menu.isItemActivated(activatedItem), dt ms after the
\* iteration before, with the button pressed or not
MenuLoop(dt, buttonPressed) ==
  /\ mPhase = "loop"
  /\ mMillis + dt <= MaxMillis
  /\ BounceNow(dt)
  /\ LET now == mMillis + dt
         u == update(menu, now, buttonPressed)
         r == isItemActivated(u)
         did == DidOf(menu, now, buttonPressed)
     IN  /\ mMillis' = now
         /\ menu' = r.menu
         /\ mEv' = [did |-> did, pre |-> menu.currentState, preItem |-> menu.selectedItem,
                    pressFrom |-> IF did = "press" THEN menu.currentState ELSE mEv.pressFrom,
                    reported |-> IF r.ret THEN r.outItem ELSE -1,
                    idle |-> /\ menu.currentState = "Visible" /\ did = "none"
                             /\ now - menu.lastButtonMs > MENU_TIMEOUT_MS]
  /\ UNCHANGED <<otaVars, hExecuted, kaVars, cliVars, mPhase, nodeVars, linkVars, wireVars, wbusVars, tlvVars>>

NextMenu ==
  \/ MenuBegin
  \/ \E dt \in LoopTimes, buttonPressed \in BOOLEAN : MenuLoop(dt, buttonPressed)

SpecMenu == Init /\ [][NextMenu]_vars

(* ---------------- claims about the button menu ---------------- *)

\* C28: when a press that was taken with the menu Hidden is released within the
\* long-press threshold, the menu is Visible with its first item selected and its
\* open time set to the time of that iteration.
C28_ShortPressOpensOnFirstItem ==
  (mEv.did = "short" /\ mEv.pressFrom = "Hidden")
    => /\ menu.currentState = "Visible"
       /\ menu.selectedItem = 0
       /\ menu.menuShowTimeMs = mMillis

\* C29: a release taken within the long-press threshold while the menu is Visible
\* moves the selection to the next item, from the last item to the first, and sets
\* the time the timeout counts from to the time of that iteration; the selection
\* is an item of the menu in every state.
C29_ShortPressAdvancesModulo ==
  /\ menu.selectedItem \in 0..(MenuItemCount - 1)
  /\ mEv.did = "short"
       => /\ menu.selectedItem = IF mEv.preItem = MenuItemCount - 1 THEN 0 ELSE mEv.preItem + 1
          /\ menu.menuShowTimeMs = mMillis
          /\ menu.currentState = "Visible"

\* a short press on the last item, in a menu that was already open, selects the first
C29_Witness ==
  /\ mEv.did = "short" /\ mEv.pressFrom = "Visible"
  /\ mEv.preItem = MenuItemCount - 1 /\ menu.selectedItem = 0

\* C30: a release taken after at least the long-press threshold while the menu is
\* Visible hides the menu, and the host is told once, in that iteration, that the
\* item then selected was activated; no other iteration reports an activation.
C30_LongPressActivatesOnce ==
  /\ mEv.did = "long"
       => /\ menu.currentState = "Hidden"
          /\ mEv.reported = mEv.preItem
          /\ ~menu.itemActivated
  /\ mEv.did # "long" => mEv.reported = -1

\* a long press on Run10min, reached by short presses, was reported and hid the menu
C30_Witness ==
  /\ mEv.did = "long" /\ mEv.pressFrom = "Visible"
  /\ mEv.reported = 2 /\ MenuItemAt[mEv.reported + 1] = "Run10min"
  /\ menu.currentState = "Hidden"

\* C31: when the menu is Visible and more than the timeout has passed since the
\* last change of the button that was taken, with no change in this iteration, the
\* iteration leaves the menu Hidden and no item is reported as activated.
C31_IdleMenuHides ==
  mEv.idle => /\ menu.currentState = "Hidden"
              /\ mEv.reported = -1
              /\ ~menu.itemActivated

\* a menu that was Visible, on an item reached by a short press, was left alone and closed
C31_Witness ==
  /\ mEv.idle /\ mEv.pre = "Visible" /\ mEv.preItem > 0
  /\ menu.currentState = "Hidden" /\ mEv.reported = -1

\* C39: an item is reported as activated only for a press that was taken while the
\* menu was Visible; a press taken while it was Hidden activates nothing, however
\* long it is held.
C39_ActivationNeedsOpenMenu ==
  mEv.reported # -1 => mEv.pressFrom = "Visible"

(* ---------------- The serial line of the sender ---------------- *)

\* the characters of the decimal digits, and the value of a digit
DigitChars == <<"0", "1", "2", "3", "4", "5", "6", "7", "8", "9">>
isDigit(c) == \E i \in 1..10 : DigitChars[i] = c
DigitValue(c) == (CHOOSE i \in 1..10 : DigitChars[i] = c) - 1

\* what a user types for the number n >= 0
RECURSIVE Decimal(_)
Decimal(n) == IF n < 10 THEN <<DigitChars[n + 1]>>
              ELSE Decimal(n \div 10) \o <<DigitChars[(n % 10) + 1]>>

\* String::toInt, i.e. atol: blanks, a sign, then digits up to the first other character
RECURSIVE atolDigits(_, _)
atolDigits(s, acc) ==
  IF s = <<>> \/ ~isDigit(Head(s)) THEN acc
  ELSE atolDigits(Tail(s), (acc * 10) + DigitValue(Head(s)))

RECURSIVE toInt(_)
toInt(s) ==
  IF s = <<>> THEN 0
  ELSE IF Head(s) = " " THEN toInt(Tail(s))
  ELSE IF Head(s) = "-" THEN 0 - atolDigits(Tail(s), 0)
  ELSE atolDigits(s, 0)

\* String::indexOf(' '): the position of the first blank, counted from 0, or -1
indexOf(line, c) ==
  IF \E i \in 1..Len(line) : line[i] = c
  THEN (CHOOSE i \in 1..Len(line) : line[i] = c /\ \A j \in 1..(i - 1) : line[j] # c) - 1
  ELSE -1

\* String::substring(from)
substring(line, from) == SubSeq(line, from + 1, Len(line))

\* String::startsWith
startsWith(line, prefix) ==
  Len(line) >= Len(prefix) /\ SubSeq(line, 1, Len(prefix)) = prefix

\* tolower for the letters the commands are made of
tolower(c) ==
  CASE c = "S" -> "s" [] c = "T" -> "t" [] c = "O" -> "o" [] c = "P" -> "p"
    [] c = "A" -> "a" [] c = "R" -> "r" [] c = "U" -> "u" [] c = "N" -> "n"
    [] OTHER -> c

\* String::equalsIgnoreCase
equalsIgnoreCase(line, word) ==
  Len(line) = Len(word) /\ \A i \in 1..Len(line) : tolower(line[i]) = tolower(word[i])

\* a run command that takes 0 minutes
RunAccepted_zero(minutes) == ~(minutes < 0 \/ minutes > 255)

\* loop(): if (minutes <= 0 || minutes > 255) the line is refused
RunAccepted(minutes) == ~(minutes <= 0 \/ minutes > 255)

\* loop(): the branch the serial UI takes for a line, and the command it sends
CliBranch(line) ==
  IF equalsIgnoreCase(line, <<"s", "t", "o", "p">>)
  THEN [did |-> "stop", send |-> TRUE, kind |-> "Stop", minutes |-> 0]
  ELSE IF equalsIgnoreCase(line, <<"s", "t", "a", "r", "t">>)
  THEN [did |-> "start", send |-> TRUE, kind |-> "Start", minutes |-> gLastMinutes]
  ELSE IF startsWith(line, <<"r", "u", "n">>) \/ startsWith(line, <<"R", "U", "N">>)
  THEN LET space == indexOf(line, " ")
           minutes == toInt(substring(line, space + 1))
       IN  IF space < 0
           THEN [did |-> "usage", send |-> FALSE, kind |-> "None", minutes |-> 0]
           ELSE IF ~RunAccepted(minutes)
           THEN [did |-> "invalid", send |-> FALSE, kind |-> "None", minutes |-> minutes]
           ELSE [did |-> "run", send |-> TRUE, kind |-> "RunMinutes",
                 minutes |-> minutes % 256]
  ELSE [did |-> "unknown", send |-> FALSE, kind |-> "None", minutes |-> 0]

\* the numbers a user types after "run "
TypedNumbers == {0, 1, 90, 255, 256, 1000}

\* the line "run N"
RunLine(n) == <<"r", "u", "n", " ">> \o Decimal(n)

\* the lines readLineNonBlocking returns: trimmed and not empty
OtherLines ==
  { <<"s", "t", "o", "p">>, <<"S", "t", "a", "r", "t">>, <<"r", "u", "n">>,
    <<"R", "U", "N", " ", "7">>, <<"R", "u", "n", " ", "7">>,
    <<"r", "u", "n", " ", "-", "5">>, <<"r", "u", "n", " ", "1", "2", "x">>,
    <<"r", "u", "n", " ", " ", "8">>, <<"h", "e", "l", "p">> }

\* which number the line "run N" was typed with, -1 for another line
TypedOf(line) ==
  IF \E n \in TypedNumbers : line = RunLine(n)
  THEN CHOOSE n \in TypedNumbers : line = RunLine(n) ELSE -1

\* loop(): handle serial UI, with sendCommandWithAck up to the built packet; the
\* lines are followed up to the first one that sends a command
CliLine(line) ==
  /\ sPc = "loop" /\ sInbox = NoPkt /\ nCmds = 0
  /\ LET b == CliBranch(line)
     IN  /\ cliEv' = [did |-> b.did, typed |-> TypedOf(line), minutes |-> b.minutes,
                      seq |-> sSeq]
         /\ IF b.send THEN Submit(b.kind, b.minutes)
            ELSE UNCHANGED <<otaVars, hExecuted, kaVars, nodeVars, linkVars, wireVars, wbusVars, tlvVars, menuVars>>

NextCli ==
  \/ \E n \in TypedNumbers : CliLine(RunLine(n))
  \/ \E line \in OtherLines : CliLine(line)
  \/ \E delivered \in BOOLEAN : SenderSend(delivered)
  \/ SenderAwaitRecv
  \/ SenderTimeout
  \/ SenderLoopRecv
  \/ RxWake
  \/ RxSetup
  \/ RxBreakDone
  \/ \E supported \in BOOLEAN : RxProbe(supported)
  \/ RxLoopTop
  \/ RxWindowRecv
  \/ RxWindowExpire
  \/ \E ack \in BOOLEAN, delivered \in BOOLEAN : RxCommand(ack, delivered)
  \/ RxPollCheck
  \/ \E answered \in BOOLEAN, gotTlv \in BOOLEAN, delivered \in BOOLEAN :
       RxPollBody(answered, gotTlv, delivered)
  \/ Tick

SpecCli == Init /\ [][NextCli]_vars

(* ---------------- claims about the serial line of the sender ---------------- *)

\* C32: after the line "run N" the sender has built and transmits a RunMinutes
\* command with minutes N if 1 <= N <= 255; for any other N, "run 0" among them,
\* no command is built, gSeq is not used up and nothing is on the air.
C32_RunSentIffInRange ==
  cliEv.typed # -1 =>
    IF 1 <= cliEv.typed /\ cliEv.typed <= 255
    THEN /\ nCmds = 1 /\ sSeq = NextSeq(cliEv.seq) /\ gLastMinutes = cliEv.typed
         /\ sPc = "await" => sCmd = makeCommandPacket("RunMinutes", cliEv.typed, cliEv.seq)
         /\ rInbox.type = "Command" => (rInbox.kind = "RunMinutes" /\ rInbox.minutes = cliEv.typed)
    ELSE /\ nCmds = 0 /\ sSeq = cliEv.seq /\ sPc = "loop" /\ sCmd = NoPkt
         /\ rInbox = NoPkt

\* "run 255" was typed and the command with 255 minutes waits in the receiver's radio
C32_Witness ==
  /\ cliEv.typed = 255 /\ cliEv.did = "run"
  /\ rInbox.type = "Command" /\ rInbox.kind = "RunMinutes" /\ rInbox.minutes = 255

(* ---------------- The receiver loop while the heater runs ---------------- *)

\* WBusSimple::kKeepAlivePeriodMs, and the same in ticks
kKeepAlivePeriodMs == 10000
KeepAliveTicks == kKeepAlivePeriodMs \div TickMs

\* the command byte of the frame sendKeepAlive() writes
WBUS_CMD_KEEPALIVE == 68

\* whether a keep-alive frame is among the frames
HasKeepAlive(frames) == \E i \in 1..Len(frames) : frames[i][1] = WBUS_CMD_KEEPALIVE

\* loop(): a new radio command is handled: the switch writes its frame and sets
\* gStatus.state; nothing else is written to the W-BUS
KaCommand(kind) ==
  /\ LET minutes == EffectiveMinutes([minutes |-> 0], gLastRunMinutes)
         ok == IF CmdFrames(kind, minutes) = <<>> THEN FALSE ELSE WBusCommandOk(TRUE)
         st == StateAfterCmd(kaState, ok, kind)
     IN  /\ kaOut' = CmdFrames(kind, minutes)
         /\ kaState' = st
         /\ kaSession' = IF st = "Running" THEN 0 ELSE -1
  /\ UNCHANGED <<otaVars, hExecuted, kaSincePoll, nodeVars, linkVars, wireVars, wbusVars, tlvVars, menuVars, cliVars>>

\* loop(): if (millis() - gLastPollMs > 2000): the operating state is read and the
\* status pages are requested; these are the only frames of the poll
KaPoll(answered, op) ==
  /\ PollDue(kaSincePoll)
  /\ LET st == IF answered THEN mapOpState(op) ELSE kaState
     IN  /\ kaState' = st
         /\ kaSession' = IF st = "Running" THEN (IF kaSession = -1 THEN 0 ELSE kaSession)
                         ELSE -1
  /\ kaOut' = PollFrames(gTlvSupportCache, FALSE)
  /\ kaSincePoll' = 0
  /\ UNCHANGED <<otaVars, hExecuted, nodeVars, linkVars, wireVars, wbusVars, tlvVars, menuVars, cliVars>>

\* one tick passes in running mode: loop() turns without a command and without a
\* poll, and writes nothing to the W-BUS
KaTick ==
  /\ kaState = "Running" /\ ~PollDue(kaSincePoll)
  /\ kaSession <= KeepAliveTicks
  /\ kaSincePoll' = kaSincePoll + 1
  /\ kaSession' = kaSession + 1
  /\ kaOut' = <<>>
  /\ UNCHANGED <<otaVars, hExecuted, kaState, nodeVars, linkVars, wireVars, wbusVars, tlvVars, menuVars, cliVars>>

NextKeep ==
  \/ \E kind \in {"Stop", "Start", "QueryStatus"} : KaCommand(kind)
  \/ \E answered \in BOOLEAN, op \in {OpStateOff, OpStateBurning} : KaPoll(answered, op)
  \/ KaTick

SpecKeep == Init /\ [][NextKeep]_vars

\* C33: while gStatus.state is Running after a start, no more than the keep-alive
\* period passes without a keep-alive frame (0x44) on the W-BUS, and no keep-alive
\* frame is written when the state is not Running.
C33_KeepAliveEvery10s ==
  /\ kaSession # -1 => kaSession <= KeepAliveTicks
  /\ kaSession = -1 => ~HasKeepAlive(kaOut)

(* ---------------- claims about the radio protocol, continued ---------------- *)

\* C34: every Status the receiver hands to the radio, as the acknowledgement of a
\* command or after a poll, carries the seq of the last radio command the receiver
\* handled, also when a deep sleep lies between that command and the Status.
C34_StatusCarriesLastCmdSeq ==
  \A i \in 1..Len(radioOut) :
    (radioOut[i].type = "Status" /\ hLastSeq # -1)
      => radioOut[i].status.lastCmdSeq = hLastSeq

\* the Status of a poll carries the seq of the second command
C34_Witness ==
  /\ ~rHandled.cmd /\ Len(radioOut) = 1 /\ radioOut[1].type = "Status"
  /\ hLastSeq = 2 /\ radioOut[1].status.lastCmdSeq = 2

(* ============ Packets addressed to another node ============ *)

\* what a third node that shares the key can put on the air: a Command and a Status
\* whose header names node 3 as the destination; both pass LoRaLink::recv, which
\* checks the size and the CRC and decrypts and never looks at h.dst
ForeignPackets ==
  {[makeCommandPacket("Start", 0, 1) EXCEPT !.dst = 3],
   [makeStatusPacket(1, [state |-> "Running", lastCmdSeq |-> 1]) EXCEPT !.dst = 3]}

\* the radio of a node takes a frame that names another node as its destination:
\* the sender hears the Status, the receiver the Command
ForeignPacket(pkt) ==
  /\ IF pkt.type = "Status"
       THEN sInbox = NoPkt /\ sInbox' = pkt /\ UNCHANGED rInbox
       ELSE RxRadioOn /\ rInbox = NoPkt /\ rInbox' = pkt /\ UNCHANGED sInbox
  /\ wbusOut' = <<>> /\ radioOut' = <<>> /\ rHandled' = NotHandled
  /\ UNCHANGED <<otaVars, hExecuted, kaVars, cliVars, menuVars, tlvVars, wbusVars, wireVars, hWbusOpen,
                 linkVars, hTlv, hOffAge, gLastCommandSource, hPreset, senderVars,
                 receiverVars, heaterVars, histVars, hIdleAtSubmit, hLossless, sGot,
                 trackNonce, encLog>>

\* one command of the sender, the receiver, and frames for a third node in between
NextForeign ==
  \/ \E c \in SubmitChoices : nCmds = 0 /\ Submit(c[1], c[2]) /\ UNCHANGED cliVars
  \/ \E delivered \in BOOLEAN : SenderSend(delivered)
  \/ SenderAwaitRecv
  \/ SenderTimeout
  \/ SenderLoopRecv
  \/ \E pkt \in ForeignPackets : ForeignPacket(pkt)
  \/ RxWake
  \/ RxSetup
  \/ RxBreakDone
  \/ \E supported \in BOOLEAN : RxProbe(supported)
  \/ RxLoopTop
  \/ RxWindowRecv
  \/ RxWindowExpire
  \/ \E ack, delivered \in BOOLEAN : RxCommand(ack, delivered)
  \/ RxPollCheck
  \/ \E answered, gotTlv, delivered \in BOOLEAN : RxPollBody(answered, gotTlv, delivered)
  \/ Tick

SpecForeign == Init /\ [][NextForeign]_vars

\* the receiver half of C35: a command is handled only if it names the receiver
ReceiverDropsForeign == rHandled.cmd => rPkt.dst = LORA_NODE_RECEIVER

\* C35: a packet that names another node as its destination is dropped silently: the
\* receiver handles no command from it (no W-BUS frame, no Status), and a submit of
\* the sender whose last packet from the radio was such a packet has not returned Ok.
C35_ForeignPacketDropped ==
  /\ ReceiverDropsForeign
  /\ (sGot # NoPkt /\ sGot.dst # LORA_NODE_SENDER) => sResult # "Ok"

(* ============ The sender is switched off and on again ============ *)

\* power-on of the sender: every global of part_007 takes its initialiser again
\* (gSeq = 1, gLastMinutes, gLastStatus{}, gAwaitingCmdSeq = 0); nothing is persisted
SenderRestart ==
  /\ sPc = "loop" /\ sSeq # 1
  /\ sSeq' = 1 /\ gAwaitingCmdSeq' = 0 /\ sCmd' = NoPkt
  /\ sElapsed' = 0 /\ sNextSend' = 0 /\ gLastMinutes' = DEFAULT_RUN_MINUTES
  /\ gLastStatus' = NoStatus /\ sResult' = "none" /\ sInbox' = NoPkt
  /\ sGot' = NoPkt /\ hExecuted' = FALSE
  /\ wbusOut' = <<>> /\ radioOut' = <<>> /\ rHandled' = NotHandled
  /\ UNCHANGED <<otaVars, kaVars, cliVars, menuVars, tlvVars, wbusVars, wireVars, hWbusOpen,
                 linkVars, hTlv, hOffAge, gLastCommandSource, hPreset, sPc, nCmds,
                 receiverVars, rInbox, heaterVars, histVars, hIdleAtSubmit, hLossless,
                 trackNonce, encLog>>

NextRestart ==
  \/ \E c \in SubmitChoices : Submit(c[1], c[2]) /\ UNCHANGED cliVars
  \/ \E delivered \in BOOLEAN : SenderSend(delivered)
  \/ SenderAwaitRecv
  \/ SenderTimeout
  \/ SenderLoopRecv
  \/ SenderRestart
  \/ RxWake
  \/ RxSetup
  \/ RxBreakDone
  \/ \E supported \in BOOLEAN : RxProbe(supported)
  \/ RxLoopTop
  \/ RxWindowRecv
  \/ RxWindowExpire
  \/ \E ack, delivered \in BOOLEAN : RxCommand(ack, delivered)
  \/ RxPollCheck
  \/ \E answered, gotTlv, delivered \in BOOLEAN : RxPollBody(answered, gotTlv, delivered)
  \/ Tick

SpecRestart == Init /\ [][NextRestart]_vars

\* C37: a submit that returned Ok was acknowledged for a command the receiver
\* dispatched after that submit began.
C37_OkMeansExecuted ==
  sResult = "Ok" => hExecuted

(* ============ A receiver is powered on next to a sender long in use ============ *)

\* the values gSeq of the sender can have when the receiver is powered on: 1 after
\* its own power-on, and 65535 and 0 around the wrap of the uint16_t counter
SeqStarts == {1, SeqModulus - 1, 0}

InitLongUse == sSeq \in SeqStarts /\ InitRest /\ trackNonce = FALSE /\ DISABLE_SLEEP = FALSE

SpecLongUse == InitLongUse /\ [][NextRx]_vars

\* C38: the first radio Command the receiver handles after its cold boot is executed
\* (dispatched, not answered as a duplicate), whatever its seq.
C38_FirstCommandExecuted ==
  (rHandled.cmd /\ rHandled.first) => rHandled.source = "lora"

(* ============ The receiver loop with MQTT control and OTA ============ *)

\* OTAUpdater::canUpdate: never while the heater is running, and WiFi is required
canUpdate(running, wifiConnected) ==
  IF running THEN FALSE
  ELSE IF ~wifiConnected THEN FALSE
  ELSE TRUE

\* the state after a command of kind `kind` from the radio, the menu or MQTT
OtaStateAfter(state, kind) ==
  IF kind = "None" THEN state
  ELSE StateAfterCmd(state, IF CmdFrames(kind, DEFAULT_RUN_MINUTES) # <<>>
                              THEN WBusCommandOk(TRUE) ELSE FALSE, kind)

\* loop() entry: heaterRunning is computed once; an idle receiver that hears no
\* command in its window deep-sleeps and restarts
OtaLoopTop(gotCmd) ==
  /\ otaPc = "top"
  /\ otaHeaterRunning' = (otaStatus = "Running")
  /\ IF otaStatus # "Running" /\ ~gotCmd
       THEN /\ otaStatus' = "Unknown" /\ updateRequested' = FALSE /\ otaPc' = "top"
            /\ wifiUp' = FALSE /\ otaCmdSource' = "none"
       ELSE otaPc' = "cmd" /\ UNCHANGED <<otaStatus, updateRequested, wifiUp, otaCmdSource>>
  /\ otaEv' = NoOtaEv
  /\ UNCHANGED <<hExecuted, kaVars, nodeVars, linkVars, wireVars, wbusVars, tlvVars,
                 menuVars, cliVars>>

\* loop(): the radio command of this iteration, if any, then the poll when it is due
OtaCommand(kind, pollDue, op) ==
  /\ otaPc = "cmd"
  /\ (~otaHeaterRunning) => kind # "None"
  /\ otaStatus' = IF pollDue THEN mapOpState(op) ELSE OtaStateAfter(otaStatus, kind)
  /\ otaCmdSource' = IF kind = "None" THEN otaCmdSource ELSE "lora"
  /\ otaPc' = "menu" /\ otaEv' = NoOtaEv
  /\ UNCHANGED <<otaHeaterRunning, updateRequested, wifiUp, hExecuted, kaVars, nodeVars,
                 linkVars, wireVars, wbusVars, tlvVars, menuVars, cliVars>>

\* loop(): menu.update(), handleMenuSelection of an activated item
OtaMenu(kind) ==
  /\ otaPc = "menu"
  /\ otaStatus' = OtaStateAfter(otaStatus, kind)
  /\ otaCmdSource' = IF kind = "None" THEN otaCmdSource ELSE "button"
  /\ otaPc' = "mqtt" /\ otaEv' = NoOtaEv
  /\ UNCHANGED <<otaHeaterRunning, updateRequested, wifiUp, hExecuted, kaVars, nodeVars,
                 linkVars, wireVars, wbusVars, tlvVars, menuVars, cliVars>>

\* loop(): wifiMgr.update(); if connected, mqttClient.update() handles one message:
\* a command (the command callback) or an update request (requestUpdate)
OtaMqtt(connected, msg) ==
  /\ otaPc = "mqtt"
  /\ wifiUp' = connected
  /\ IF ~connected
       THEN /\ msg = "None" /\ otaPc' = "top"
            /\ UNCHANGED <<otaStatus, updateRequested, otaCmdSource>>
       ELSE /\ otaPc' = "ota"
            /\ otaCmdSource' = IF msg \in {"None", "ota"} THEN otaCmdSource ELSE "mqtt"
            /\ otaStatus' = IF msg = "ota" THEN otaStatus ELSE OtaStateAfter(otaStatus, msg)
            /\ updateRequested' = (updateRequested \/ msg = "ota")
  /\ otaEv' = NoOtaEv
  /\ UNCHANGED <<otaHeaterRunning, hExecuted, kaVars, nodeVars, linkVars, wireVars,
                 wbusVars, tlvVars, menuVars, cliVars>>

\* loop(): if (isUpdateRequested()) { if (canUpdate(heaterRunning)) performUpdate
\* else publishOTAStatus("deferred" or "error"); clearUpdateRequest() }; a successful
\* update reboots the chip
OtaCheck(wifiConnected, success) ==
  /\ otaPc = "ota"
  /\ otaPc' = "top"
  /\ IF ~updateRequested
       THEN /\ otaEv' = NoOtaEv /\ wifiConnected /\ ~success
            /\ UNCHANGED <<otaStatus, wifiUp, otaCmdSource>>
       ELSE IF canUpdate(otaHeaterRunning, wifiConnected)
       THEN /\ otaEv' = [did |-> "update", state |-> otaStatus]
            /\ otaStatus' = IF success THEN "Unknown" ELSE otaStatus
            /\ wifiUp' = (wifiUp /\ ~success)
            /\ otaCmdSource' = IF success THEN "none" ELSE otaCmdSource
       ELSE /\ otaEv' = [did |-> IF otaHeaterRunning THEN "deferred" ELSE "error",
                         state |-> otaStatus]
            /\ ~success
            /\ UNCHANGED <<otaStatus, wifiUp, otaCmdSource>>
  /\ updateRequested' = FALSE
  /\ UNCHANGED <<otaHeaterRunning, hExecuted, kaVars, nodeVars, linkVars, wireVars,
                 wbusVars, tlvVars, menuVars, cliVars>>

NextOta ==
  \/ \E gotCmd \in BOOLEAN : OtaLoopTop(gotCmd)
  \/ \E kind \in {"None", "Stop", "Start", "QueryStatus"}, pollDue \in BOOLEAN,
        op \in {OpStateOff, OpStateBurning} : OtaCommand(kind, pollDue, op)
  \/ \E kind \in {"None", "Stop", "Start"} : OtaMenu(kind)
  \/ \E connected \in BOOLEAN, msg \in {"None", "Stop", "Start", "ota"} :
       OtaMqtt(connected, msg)
  \/ \E wifiConnected, success \in BOOLEAN : OtaCheck(wifiConnected, success)

SpecOta == Init /\ [][NextOta]_vars

\* C40: performUpdate is never called while gStatus.state is Running.
C40_NoOtaWhileRunning ==
  otaEv.did = "update" => otaEv.state # "Running"

====
